---- MODULE Spec2Model ----
(***************************************************************************)
(* Model of the Kiiroo Control SDK device facade (React Native variant,    *)
(* src/react_native/src/DeviceSensorEvents.ts and BleManagerSensor.ts).    *)
(* The BLE transport (react-native-ble-manager) is the environment: every  *)
(* call the facade awaits is a suspension point at which the transport     *)
(* answers, fails, or the link drops.                                      *)
(***************************************************************************)
EXTENDS Integers, Sequences, FiniteSets, TLC

(* ------------------------------ bounds -------------------------------- *)
\* longest firmware image of the facade specification
MaxLen == 3
\* largest small packet size the transport's MTU reply produces
MaxPacket == 2
\* longest image of the chunking specification
MaxImage == 4
\* largest chunk count of the streaming specification
MaxChunks == 200
\* largest byte value an axis notification carries
MaxAxis == 2
\* largest small field of the samples whose magnitude is computed
MaxSample == 6

(* ------------------------- program constants -------------------------- *)
DEFAULT_MTU_SIZE == 23
IOS_MTU_SIZE == 185
DESIRED_MTU_SIZE == 252
DESIRED_MTU_SIZE_V_14 == 512
\* bytes of transport framing subtracted from the MTU
MtuOverhead == 3
\* first Android API level that gets the larger MTU and the fast-mode flag
FastModeVersion == 34
OtaStart == 1
OtaDone == 4

KIIROO_CONTROL_SERVICE_UUID == "1400"
DISCONNECT_DEVICE_UUID == "1501"
OTA_DATA_UUID == "1701"
OTA_CONTROL_UUID == "1702"
TEST_DEVICE_DEVICE_NAME_SERVICE_UUID == "180A"
BATTERY_LEVEL_UUID == "2A19"
MODEL_NUMBER_UUID == "2A24"
SERIAL_NUMBER_UUID == "2A25"
FIRMWARE_NUMBER_UUID == "2A26"
HARDWARE_NUMBER_UUID == "2A27"
MANUFACTURER_NAME_UUID == "2A29"
READ_NAME_UUID == "2A00"
CHAR_X_UUID == "FFF1"
CHAR_Y_UUID == "FFF2"
CHAR_Z_UUID == "FFF3"

deviceNotInitMsg == "The device should be connected first."
deviceNotFound == "The device is invalid or not found"

(* ---------------------------- environment ----------------------------- *)
NoDevice == "none"
Devices == {"A", "B"}
\* the peripheral the application connects to
FlashDevices == {"A"}
\* errors the transport may reject a call with
TransportErrors == {"gatt error", "timeout"}
\* Platform.OS and Platform.Version of the build the facade runs in
PlatformOSes == {"ios", "android"}
PlatformVersions == {FastModeVersion - 1, FastModeVersion}

VARIABLES
  PlatformOS, PlatformVersion,  \* react-native Platform
  linkUp,          \* transport: peripheral -> link established
  notifying,       \* transport: peripheral -> characteristics with notifications started
  stops,           \* transport: peripheral -> stopNotification requests issued and not
                   \* awaited (they may fail, or not settle while the link lasts)
  callbacks,       \* BleManagerSensor callback table: peripheral -> entry
  device,          \* KiirooControl.device
  notificationData,             \* KiirooControl.notificationData (a DeviceData)
  acceleration,                 \* KiirooControl.acceleration
  emitted,                      \* the last event handed to sensor.emit
  raised,                       \* the error the last run of the handler threw, "" for none
  listeners,                    \* sensor.ee: peripheral -> the listeners added for its
                                \* message, in the order they were added
  inbox,                        \* per listener, the events it was invoked with, in order
  busOp,                        \* history: the last call the application made on sensor
  lastNotified,                 \* history: per axis, the value of the last notification the
                                \* handler processed since connect() was last entered
  gpc, gname, gres, gval, gio,  \* an info getter or testDevice in flight: position, method,
                                \* outcome, value, transport calls issued
  cpc, cdev, cowner, cres,      \* connect() in flight: position, argument, caller, outcome
  dpc, ddev,                    \* disconnect() calls in flight, per caller: position and
                                \* peripheral of the pending transport call
  dres,                         \* outcome of the application's disconnect() call
  dio,                          \* transport calls issued by the application's disconnect()
  fpc, fstatus, ferr,           \* flashFirmware(): position, status, rejection value
  firmware, mtuSize, packetSize, chunks, ci,   \* flashFirmware locals
  progress,        \* values handed to onProgress by the run, in order
  ota,             \* transport calls issued by the run, in order
  wdevice,         \* web KiirooControl.device
  controlService,  \* web KiirooControl.controlService: the peripheral whose service it is
  wsetup,          \* the setUpListener calls connect() started and that have not settled
  wpc, wname, wres, wval, wio,  \* a call on the web facade: position, method, outcome,
                                \* value, calls issued in order
  wconn,           \* history: isConnected() at the moment the call was made
  wchunks, wi,     \* web flashFirmware locals; the axis disconnect() is at
  waxis,           \* web KiirooControl._axisX, _axisY, _axisZ as one sample
  sensorEventListenerCallBack,  \* web: whether a callback has been set
  wlisteners,      \* per axis, the listeners setUpListener has added to the characteristic
                   \* object of the service in controlService and nobody has removed
  wstale,          \* the link was closed after controlService was obtained: the browser
                   \* hands out new service and characteristic objects from then on
  wnote,           \* history: the last notification the browser dispatched, the listeners
                   \* it ran and the calls of the callback they made
  parked,          \* a second flashFirmware() run on the facade: the run that is suspended
                   \* while the run in fpc .. ota takes its steps
  session,         \* history: which of the two runs fpc .. ota belong to
  wire,            \* history: each time the other run went on, the run that had been
                   \* going and the writes to OTA data it had issued by then
  facade2          \* a second KiirooControl instance of the application: where its
                   \* connect() is, its device, notificationData and acceleration

flashVars == <<fpc, fstatus, ferr, firmware, mtuSize, packetSize, chunks, ci, progress, ota>>
connVars == <<cpc, cdev, cowner, cres>>
discVars == <<dpc, ddev, dres, dio>>
envVars == <<PlatformOS, PlatformVersion>>
sessVars == <<parked, session, wire>>
subVars == <<notifying, stops>>
sensorVars == <<notificationData, acceleration, emitted, lastNotified, raised, inbox>>
busVars == <<listeners, busOp>>
infoVars == <<gpc, gname, gres, gval, gio>>
wsensVars == <<waxis, sensorEventListenerCallBack, wlisteners, wstale, wnote>>
webVars == <<wdevice, controlService, wsetup, wpc, wname, wres, wval, wio, wconn, wchunks, wi,
             wsensVars>>
vars == <<PlatformOS, PlatformVersion, linkUp, notifying, stops, callbacks, device,
          notificationData, acceleration, emitted, lastNotified, raised,
          listeners, inbox, busOp, gpc, gname, gres, gval, gio,
          cpc, cdev, cowner, cres, dpc, ddev, dres, dio,
          fpc, fstatus, ferr, firmware, mtuSize, packetSize, chunks, ci, progress, ota,
          wdevice, controlService, wsetup, wpc, wname, wres, wval, wio, wconn, wchunks, wi,
          waxis, sensorEventListenerCallBack, wlisteners, wstale, wnote,
          parked, session, wire, facade2>>

(* ------------------------------ helpers ------------------------------- *)
Min(a, b) == IF a < b THEN a ELSE b
Max(a, b) == IF a > b THEN a ELSE b

\* slice taking its end offset as included
SliceInclusive(s, start, end) ==
  LET n == Len(s)
      from == IF start < 0 THEN Max(n + start, 0) ELSE Min(start, n)
      to == IF end < 0 THEN Max(n + end, 0) ELSE Min(end + 1, n)
  IN  IF to <= from THEN <<>> ELSE SubSeq(s, from + 1, to)

\* Array.prototype.slice(start, end) on a 0-based array of length Len(s)
Slice(s, start, end) ==
  LET n == Len(s)
      from == IF start < 0 THEN Max(n + start, 0) ELSE Min(start, n)
      to == IF end < 0 THEN Max(n + end, 0) ELSE Min(end, n)
  IN  IF to <= from THEN <<>> ELSE SubSeq(s, from + 1, to)

\* the chunking loop of flashFirmware, from offset i with the chunks pushed so far
RECURSIVE ChunkLoop(_, _, _, _)
ChunkLoop(fw, size, i, acc) ==
  IF i < Len(fw)
    THEN ChunkLoop(fw, size, i + size, Append(acc, Slice(fw, i, i + size)))
    ELSE acc

\* the loop makes no progress towards firmware.length when the step is not positive
ChunkLoopDiverges(fw, size) == Len(fw) > 0 /\ size <= 0

\* rounding up instead of to the nearest
RoundDivUp(a, b) == (a + b - 1) \div b

\* Math.round of the non-negative quotient a / b (halves round up)
RoundDiv(a, b) == (2 * a + b) \div (2 * b)

\* progress counted from the chunk after the one just written
ProgressPercentNext(i, n) == RoundDiv((i + 1) * 100, n)

\* Math.round((i / chunks.length) * 100)
ProgressPercent(i, n) == RoundDiv(i * 100, n)

\* versionNumber >= 34 ? 1 : 0
TransferModeFlag(version) == IF version >= FastModeVersion THEN 1 ELSE 0

\* versionNumber >= 34 ? DESIRED_MTU_SIZE_V_14 : DESIRED_MTU_SIZE
DesiredMtu(version) ==
  IF version >= FastModeVersion THEN DESIRED_MTU_SIZE_V_14 ELSE DESIRED_MTU_SIZE

\* values BleManager.requestMTU may resolve with when asked for `desired`
MtuReplies(desired) == ((MtuOverhead - 1)..(MtuOverhead + MaxPacket)) \cup {desired}

\* firmware images handed to flashFirmware: byte k at offset k - 1
Image(len) == [k \in 1..len |-> k]
FirmwareImages == {Image(len) : len \in 0..MaxLen}

(* one transport call: what was asked of which peripheral, and the answer *)
NoMax == -1
Call(op, dev, ch, data, max) ==
  [op |-> op, dev |-> dev, ch |-> ch, data |-> data, max |-> max, st |-> "pending"]
\* BleManager.isPeripheralConnected(this.device.id), issued by isConnected()
Query(dev) == Call("isPeripheralConnected", dev, "", <<>>, NoMax)
\* BleManager.write(this.device.id, service, serviceChar, data, maxByteSize)
Write(dev, ch, data, max) == Call("write", dev, ch, data, max)
\* BleManager.read(this.device.id, service, serviceChar)
Read(dev, ch) == Call("read", dev, ch, <<>>, NoMax)
\* BleManager.stopNotification(deviceId, service, characteristic)
StopNotification(dev, ch) == Call("stopNotification", dev, ch, <<>>, NoMax)
\* BleManager.disconnect(this.device.id)
Close(dev) == Call("disconnect", dev, "", <<>>, NoMax)

Last(log) == log[Len(log)]
\* the log with its last call answered by st
Answered(log, st) == [log EXCEPT ![Len(log)].st = st]
Bool(b) == IF b THEN "true" ELSE "false"

\* `${this.deviceNotFound}: ${err}`
ConnectFailure(err) ==
  CASE err = "gatt error" -> "The device is invalid or not found: gatt error"
    [] err = "timeout" -> "The device is invalid or not found: timeout"
    [] OTHER -> deviceNotFound

\* who calls disconnect(): the application, or the catch block of connect()
DiscCallers == {"user", "cleanup"}

(* ------------------------------ sensor -------------------------------- *)
\* the characteristics connect() subscribes to, in the order it does
AxisTags == {CHAR_X_UUID, CHAR_Y_UUID, CHAR_Z_UUID}
\* Number(data.value[0]) of a notification: one unsigned byte
SensorValues == 0..MaxAxis

\* new DeviceData(axisX, axisY, axisZ), lines 156-160
DeviceData(x, y, z) == [axisX |-> x, axisY |-> y, axisZ |-> z]

\* set_fffx storing every value in the X field
set_fffx_AlwaysX(data, propName, value) == [data EXCEPT !.axisX = value]

\* DeviceData.set_fffx for one of the three axis tags, lines 202-212
set_fffx(data, propName, value) ==
  CASE propName = CHAR_X_UUID -> [data EXCEPT !.axisX = value]
    [] propName = CHAR_Y_UUID -> [data EXCEPT !.axisY = value]
    [] propName = CHAR_Z_UUID -> [data EXCEPT !.axisZ = value]

\* the square root cut off instead of rounded
FloorSqrt(s) == CHOOSE r \in 0..s : r * r <= s /\ s < (r + 1) * (r + 1)

\* Math.round(Math.sqrt(s)) for an integer s >= 0
RoundSqrt(s) ==
  CHOOSE r \in 0..s :
    /\ (r = 0 \/ (2 * r - 1) * (2 * r - 1) <= 4 * s)
    /\ 4 * s < (2 * r + 1) * (2 * r + 1)

\* DeviceData.calculateTotalAcceleration, lines 190-195
calculateTotalAcceleration(data) ==
  Min(RoundSqrt(data.axisX * data.axisX + data.axisY * data.axisY
                + data.axisZ * data.axisZ), 5)

\* an entry of the callback table (CallbackInfo, BleManagerSensor.ts lines 7-11);
\* callback tells whether subscribe was given one, and owner which facade's connect()
\* made the call, that is whose handler the callback is
CallbackInfo(characteristic, callback) ==
  [callback |-> callback, service |-> KIIROO_CONTROL_SERVICE_UUID,
   characteristic |-> characteristic, owner |-> 1]
\* callbacks[deviceId] undefined
NoEntry == [callback |-> FALSE, service |-> "", characteristic |-> "", owner |-> 0]

\* a KiirooControl instance after its constructor, lines 231-235
NewFacade ==
  [pc |-> "idle", device |-> NoDevice, notificationData |-> DeviceData(0, 0, 0),
   acceleration |-> 0]

\* no notification dispatched to the web facade yet
NoNote == [char |-> "", runs |-> 0, calls |-> 0]
\* a characteristic object nobody has added a listener to
NoListeners == [a \in AxisTags |-> 0]

\* sensor.emit has not been called yet
NoEvent == [device |-> NoDevice, percent |-> 0]
NoSample == [a \in AxisTags |-> <<>>]

(* ----------------------------- event bus ------------------------------ *)
\* the listener functions the application passes to sensor.subscribe
Listeners == {"l1", "l2"}
\* the most registrations one device's message is followed with
MaxListeners == 3
\* the most events one listener is followed for
MaxInbox == 2

\* the arguments a listener is invoked with
SensorEvent(dev, percent) == [device |-> dev, percent |-> percent]
\* no call made on sensor yet
NoBusOp == [op |-> "none", device |-> NoDevice, listener |-> "none", registered |-> FALSE]

\* how many times listener l occurs in the registrations regs
Count(l, regs) == Cardinality({i \in DOMAIN regs : regs[i] = l})

\* EventEmitter.addListener: appended, whether or not it is already there
AddListener(regs, l) == Append(regs, l)

\* EventEmitter.removeListener: takes out the most recently added instance of l, if any
RemoveListener(regs, l) ==
  LET hits == {i \in DOMAIN regs : regs[i] = l}
  IN  IF hits = {}
        THEN regs
        ELSE LET k == CHOOSE i \in hits : \A j \in hits : j <= i
             IN  SubSeq(regs, 1, k - 1) \o SubSeq(regs, k + 1, Len(regs))

\* every listener still has room for the events one emit for dev would hand it
InboxRoom(dev) ==
  dev # NoDevice =>
    \A l \in Listeners : Len(inbox[l]) + Count(l, listeners[dev]) <= MaxInbox

\* EventEmitter.emit: each registration of the message is invoked once, in order
Deliver(dev, percent) ==
  inbox' = [l \in Listeners |->
              inbox[l] \o [k \in 1..Count(l, listeners[dev]) |-> SensorEvent(dev, percent)]]

\* emit delivering to every listener of every device
SensorEmitAll(dev, percent) ==
  inbox' = [l \in Listeners |-> Append(inbox[l], SensorEvent(dev, percent))]

\* DeviceSensorEvents.emit(device, percent), lines 36-41
SensorEmit(dev, percent) ==
  IF dev = NoDevice
    THEN UNCHANGED inbox
    ELSE Deliver(dev, percent)

(* ------------------------------- Init --------------------------------- *)
\* no call made on the facade yet, nothing asked of the transport
\* the locals and the position of a flashFirmware() run nobody has started
NoSession ==
  [fpc |-> "idle", fstatus |-> "idle", ferr |-> "none", firmware |-> <<>>,
   mtuSize |-> DEFAULT_MTU_SIZE, packetSize |-> 0, chunks |-> <<>>, ci |-> 0,
   progress |-> <<>>, ota |-> <<>>]

InitCalls ==
  /\ PlatformOS \in PlatformOSes
  /\ PlatformVersion \in PlatformVersions
  /\ linkUp = [d \in Devices |-> FALSE]
  /\ notifying = [d \in Devices |-> {}]
  /\ stops = [d \in Devices |-> {}]
  /\ callbacks = [d \in Devices |-> NoEntry]
  /\ device = NoDevice
  /\ emitted = NoEvent
  /\ lastNotified = NoSample
  /\ raised = ""
  /\ listeners = [d \in Devices |-> <<>>]
  /\ inbox = [l \in Listeners |-> <<>>]
  /\ busOp = NoBusOp
  /\ gpc = "idle" /\ gname = "none" /\ gres = "none" /\ gval = "" /\ gio = <<>>
  /\ cpc = "idle" /\ cdev = NoDevice /\ cowner = "none" /\ cres = "none"
  /\ dpc = [s \in DiscCallers |-> "idle"]
  /\ ddev = [s \in DiscCallers |-> NoDevice]
  /\ dres = "none"
  /\ dio = <<>>
  /\ wdevice = NoDevice /\ controlService = NoDevice /\ wsetup = {}
  /\ wpc = "idle" /\ wname = "none" /\ wres = "none" /\ wval = "" /\ wio = <<>>
  /\ wconn = FALSE /\ wchunks = <<>> /\ wi = 0
  /\ waxis = DeviceData(0, 0, 0) /\ sensorEventListenerCallBack = FALSE
  /\ wlisteners = NoListeners /\ wstale = FALSE /\ wnote = NoNote
  /\ parked = NoSession /\ session = 1 /\ wire = <<>>
  /\ facade2 = NewFacade

\* a freshly constructed facade, lines 231-235, with no call made on it yet
InitFacade ==
  /\ InitCalls
  /\ notificationData = DeviceData(0, 0, 0)
  /\ acceleration = 0

Init ==
  /\ InitFacade
  /\ fpc = "idle" /\ fstatus = "idle" /\ ferr = "none"
  /\ firmware = <<>> /\ mtuSize = DEFAULT_MTU_SIZE /\ packetSize = 0
  /\ chunks = <<>> /\ ci = 0 /\ progress = <<>> /\ ota = <<>>

(* ----------------------------- disconnect ----------------------------- *)
FlashInFlight == fstatus = "running"
ConnectInFlight == cpc # "idle"
DisconnectInFlight(s) == dpc[s] # "idle"
\* the application awaits each call on the facade before it makes the next one
AppIdle ==
  /\ fstatus = "idle" /\ ~ConnectInFlight /\ cres = "none"
  /\ ~DisconnectInFlight("user") /\ dres = "none"
  /\ gpc = "idle" /\ gres = "none"

\* the promise of disconnect() settles with value; nobody holds the promise of the
\* call made by connect's catch block
DisconnectSettle(s, value) == dres' = IF s = "user" THEN value ELSE dres

\* the stop asked for the first axis characteristic only
StopAxesFirst(dev) == <<StopNotification(dev, CHAR_X_UUID)>>

\* lines 301-308: one stopNotification per axis characteristic, none of them awaited
StopAxes(dev) ==
  <<StopNotification(dev, CHAR_X_UUID), StopNotification(dev, CHAR_Y_UUID),
    StopNotification(dev, CHAR_Z_UUID)>>

\* the transport calls disconnect() issues are recorded for the application's call
DisconnectIssue(s, calls) == dio' = IF s = "user" THEN dio \o calls ELSE dio

\* disconnect() by caller s up to its first await, lines 296-298
DisconnectBody(s) ==
  IF device = NoDevice
    THEN /\ DisconnectSettle(s, deviceNotInitMsg)
         /\ UNCHANGED <<dpc, ddev, dio>>
    ELSE /\ dpc' = [dpc EXCEPT ![s] = "chk"]
         /\ ddev' = [ddev EXCEPT ![s] = device]
         /\ DisconnectSettle(s, "pending")
         /\ DisconnectIssue(s, <<Query(device)>>)

\* the application invokes disconnect()
DisconnectCall ==
  /\ AppIdle
  /\ DisconnectBody("user")
  /\ UNCHANGED <<envVars, sessVars, facade2, busVars, webVars, subVars, sensorVars, infoVars, linkUp, callbacks, device, connVars, flashVars>>

DisconnectReject(s, value) ==
  /\ dpc' = [dpc EXCEPT ![s] = "idle"]
  /\ ddev' = [ddev EXCEPT ![s] = NoDevice]
  /\ DisconnectSettle(s, value)
  /\ UNCHANGED dio

\* the link closed on every platform without the disconnect-intent write
DisconnectCloseDirect(s, calls) ==
  /\ dpc' = [dpc EXCEPT ![s] = "close"]
  /\ ddev' = [ddev EXCEPT ![s] = device]
  /\ DisconnectIssue(s, Append(calls, Close(device)))
  /\ UNCHANGED dres

\* lines 310-313: the disconnect-intent write's guard on Android, else the link is closed
DisconnectClose(s, calls) ==
  IF PlatformOS = "android"
    THEN /\ dpc' = [dpc EXCEPT ![s] = "intent_chk"]
         /\ ddev' = [ddev EXCEPT ![s] = device]
         /\ DisconnectIssue(s, Append(calls, Query(device)))
         /\ UNCHANGED dres
    ELSE /\ dpc' = [dpc EXCEPT ![s] = "close"]
         /\ ddev' = [ddev EXCEPT ![s] = device]
         /\ DisconnectIssue(s, Append(calls, Close(device)))
         /\ UNCHANGED dres

\* the guard's query settles, lines 297-309: the three stopNotification calls are fired
\* without being awaited, then BleManagerSensor.unsubscribe awaits its own
\* stopNotification when the table has an entry (BleManagerSensor.ts lines 59-65)
DisconnectChecked(s) ==
  /\ dpc[s] = "chk"
  /\ IF ~linkUp[ddev[s]]
       THEN DisconnectReject(s, deviceNotInitMsg) /\ UNCHANGED stops
       ELSE /\ stops' = [stops EXCEPT ![device] = AxisTags]
            /\ IF callbacks[device] = NoEntry
                 THEN DisconnectClose(s, StopAxes(device))
                 ELSE /\ dpc' = [dpc EXCEPT ![s] = "unsub"]
                      /\ ddev' = [ddev EXCEPT ![s] = device]
                      /\ DisconnectIssue(s, Append(StopAxes(device),
                            StopNotification(device, callbacks[device].characteristic)))
                      /\ UNCHANGED dres
  /\ UNCHANGED <<envVars, sessVars, facade2, busVars, webVars, notifying, sensorVars, infoVars, linkUp, callbacks, device,
                 connVars, flashVars>>

\* unsubscribe's stopNotification settles, BleManagerSensor.ts lines 65-66
DisconnectUnsubscribed(s) ==
  /\ dpc[s] = "unsub"
  /\ \/ /\ linkUp[ddev[s]]
        /\ notifying' = [notifying EXCEPT
                           ![ddev[s]] = @ \ {callbacks[ddev[s]].characteristic}]
        /\ callbacks' = [callbacks EXCEPT ![ddev[s]] = NoEntry]
        /\ DisconnectClose(s, <<>>)
     \/ /\ \E err \in TransportErrors : DisconnectReject(s, err)
        /\ UNCHANGED <<callbacks, notifying>>
  /\ UNCHANGED <<envVars, sessVars, facade2, busVars, webVars, stops, sensorVars, infoVars, linkUp, device, connVars, flashVars>>

\* writeChar(DISCONNECT_DEVICE_UUID, [0]): its guard's query settles, line 311
DisconnectIntent(s) ==
  /\ dpc[s] = "intent_chk"
  /\ IF linkUp[ddev[s]]
       THEN /\ dpc' = [dpc EXCEPT ![s] = "intent_io"]
            /\ ddev' = [ddev EXCEPT ![s] = device]
            /\ DisconnectIssue(s, <<Write(device, DISCONNECT_DEVICE_UUID, <<0>>, NoMax)>>)
            /\ UNCHANGED dres
       ELSE DisconnectReject(s, deviceNotInitMsg)
  /\ UNCHANGED <<envVars, sessVars, facade2, busVars, webVars, subVars, sensorVars, infoVars, linkUp, callbacks, device, connVars, flashVars>>

\* the disconnect-intent write settles, then BleManager.disconnect is issued, line 313
DisconnectIntentSettled(s) ==
  /\ dpc[s] = "intent_io"
  /\ \/ /\ linkUp[ddev[s]]
        /\ dpc' = [dpc EXCEPT ![s] = "close"]
        /\ ddev' = [ddev EXCEPT ![s] = device]
        /\ DisconnectIssue(s, <<Close(device)>>)
        /\ UNCHANGED dres
     \/ \E err \in TransportErrors : DisconnectReject(s, err)
  /\ UNCHANGED <<envVars, sessVars, facade2, busVars, webVars, subVars, sensorVars, infoVars, linkUp, callbacks, device, connVars, flashVars>>

\* the link to peripheral d is gone, and with it the peripheral's notifications and the
\* requests still in flight on it
LinkClosed(d) ==
  /\ linkUp' = [linkUp EXCEPT ![d] = FALSE]
  /\ notifying' = [notifying EXCEPT ![d] = {}]
  /\ stops' = [stops EXCEPT ![d] = {}]

\* BleManager.disconnect settles, line 313
DisconnectClosed(s) ==
  /\ dpc[s] = "close"
  /\ \/ /\ LinkClosed(ddev[s])
        /\ DisconnectReject(s, "resolved")
     \/ /\ \E err \in TransportErrors : DisconnectReject(s, err)
        /\ UNCHANGED <<linkUp, subVars>>
  /\ UNCHANGED <<envVars, sessVars, facade2, busVars, webVars, sensorVars, infoVars, callbacks, device, connVars, flashVars>>

(* ------------------------------ connect ------------------------------- *)
\* connect(device), lines 320-328: up to the first await
ConnectBody(d, owner) ==
  /\ device' = d
  /\ notificationData' = DeviceData(0, 0, 0)
  /\ lastNotified' = NoSample
  /\ cpc' = "connect" /\ cdev' = d /\ cowner' = owner /\ cres' = "pending"
  /\ UNCHANGED <<acceleration, emitted, raised, inbox>>

\* the catch block of connect, lines 360-364: disconnect() is started and not awaited
ConnectCatch(err) ==
  /\ ~DisconnectInFlight("cleanup")
  /\ cpc' = "idle"
  /\ cres' = ConnectFailure(err)
  /\ DisconnectBody("cleanup")
  /\ UNCHANGED <<cdev, cowner>>

\* a caller invokes connect(d); callers serialize their calls on the facade
ConnectCall(d) ==
  /\ AppIdle
  /\ IF d = NoDevice
       THEN /\ cres' = deviceNotFound /\ cowner' = "user"
            /\ UNCHANGED <<device, cpc, cdev, sensorVars>>
       ELSE ConnectBody(d, "user")
  /\ UNCHANGED <<envVars, sessVars, facade2, busVars, webVars, subVars, infoVars, linkUp, callbacks, discVars, flashVars>>

\* BleManager.connect settles, line 328; then retrieveServices is issued
ConnectLink ==
  /\ cpc = "connect"
  /\ \/ /\ linkUp' = [linkUp EXCEPT ![cdev] = TRUE]
        /\ cpc' = "services"
        /\ UNCHANGED <<cdev, cowner, cres, discVars>>
     \/ \E err \in TransportErrors : ConnectCatch(err) /\ UNCHANGED linkUp
  /\ UNCHANGED <<envVars, sessVars, facade2, busVars, webVars, subVars, sensorVars, infoVars, callbacks, device, flashVars>>

\* BleManager.retrieveServices settles, line 329; then subscribe(X) is issued
ConnectServices ==
  /\ cpc = "services"
  /\ \/ /\ linkUp[cdev]
        /\ cpc' = "subX"
        /\ UNCHANGED <<cdev, cowner, cres, discVars>>
     \/ \E err \in TransportErrors : ConnectCatch(err)
  /\ UNCHANGED <<envVars, sessVars, facade2, busVars, webVars, subVars, sensorVars, infoVars, linkUp, callbacks, device, flashVars>>

\* subscribe leaving alone the entry a device already has
SubscribeKeeping(owner, deviceId, characteristic, callback) ==
  /\ notifying' = [notifying EXCEPT ![deviceId] = @ \cup {characteristic}]
  /\ callbacks' = IF callbacks[deviceId] # NoEntry
                    THEN callbacks
                    ELSE [callbacks EXCEPT ![deviceId] =
                            [CallbackInfo(characteristic, callback) EXCEPT !.owner = owner]]

\* BleManagerSensor.subscribe called by the connect() of facade owner, BleManagerSensor.ts
\* lines 39-53: once startNotification has resolved the table entry of the device is
\* replaced
SubscribeBy(owner, deviceId, characteristic, callback) ==
  /\ notifying' = [notifying EXCEPT ![deviceId] = @ \cup {characteristic}]
  /\ callbacks' = [callbacks EXCEPT ![deviceId] =
                     [CallbackInfo(characteristic, callback) EXCEPT !.owner = owner]]

\* the call as the facade of this model makes it
Subscribe(deviceId, characteristic, callback) ==
  SubscribeBy(1, deviceId, characteristic, callback)

\* subscribe(X) and subscribe(Y) settle, lines 330-339: entries without a callback
ConnectSubXY ==
  /\ cpc \in {"subX", "subY"}
  /\ \/ /\ linkUp[cdev]
        /\ Subscribe(cdev, IF cpc = "subX" THEN CHAR_X_UUID ELSE CHAR_Y_UUID, FALSE)
        /\ cpc' = IF cpc = "subX" THEN "subY" ELSE "subZ"
        /\ UNCHANGED <<cdev, cowner, cres, discVars>>
     \/ \E err \in TransportErrors : ConnectCatch(err) /\ UNCHANGED <<callbacks, notifying>>
  /\ UNCHANGED <<envVars, sessVars, facade2, busVars, webVars, stops, sensorVars, infoVars, linkUp, device, flashVars>>

\* subscribe(Z, handler) settles, lines 340-359: the entry now carries the handler
ConnectSubZ ==
  /\ cpc = "subZ"
  /\ \/ /\ linkUp[cdev]
        /\ Subscribe(cdev, CHAR_Z_UUID, TRUE)
        /\ cpc' = "idle" /\ cres' = "resolved"
        /\ UNCHANGED <<cdev, cowner, discVars>>
     \/ \E err \in TransportErrors : ConnectCatch(err) /\ UNCHANGED <<callbacks, notifying>>
  /\ UNCHANGED <<envVars, sessVars, facade2, busVars, webVars, stops, sensorVars, infoVars, linkUp, device, flashVars>>

\* the peripheral goes out of range, powers off or reboots
LinkDrop(d) ==
  /\ linkUp[d]
  /\ fstatus # "diverged"
  /\ LinkClosed(d)
  /\ UNCHANGED <<envVars, sessVars, facade2, busVars, webVars, sensorVars, infoVars, callbacks, device, connVars, discVars,
                 flashVars>>

(* --------------------------- flashFirmware ---------------------------- *)
locals == <<firmware, mtuSize, packetSize, chunks, ci, progress>>

\* return Promise.reject(value), or an awaited call rejecting with value
FlashReject(value, log) ==
  /\ fstatus' = "rejected" /\ ferr' = value /\ ota' = log
  /\ UNCHANGED fpc

\* the guard of writeChar / readChar / flashFirmware up to its await, lines 242, 256, 465:
\* without a device it rejects at once, otherwise isConnected() asks the transport
FlashGuard(log, next) ==
  IF device = NoDevice
    THEN FlashReject(deviceNotInitMsg, log)
    ELSE /\ ota' = Append(log, Query(device)) /\ fpc' = next
         /\ UNCHANGED <<fstatus, ferr>>

\* the transport's answer to the pending isPeripheralConnected
QueryAnswer == linkUp[Last(ota).dev]

\* a guard whose query came back true issues its transport call, lines 246-252, 259-263
FlashIssue(call, next) ==
  /\ ota' = Append(Answered(ota, "true"), call) /\ fpc' = next
  /\ UNCHANGED <<fstatus, ferr>>

\* a caller invokes flashFirmware(fw, onProgress), lines 460-467
FlashCall(fw) ==
  /\ AppIdle
  /\ firmware' = fw /\ mtuSize' = DEFAULT_MTU_SIZE /\ packetSize' = 0
  /\ chunks' = <<>> /\ ci' = 0 /\ progress' = <<>>
  /\ IF device = NoDevice
       THEN /\ fstatus' = "rejected" /\ ferr' = deviceNotInitMsg
            /\ ota' = <<>> /\ fpc' = "guard"
       ELSE /\ fstatus' = "running" /\ ferr' = "none"
            /\ ota' = <<Query(device)>> /\ fpc' = "guard"
  /\ UNCHANGED <<envVars, sessVars, facade2, busVars, webVars, subVars, sensorVars, infoVars, linkUp, callbacks, device, connVars, discVars>>

\* the whole transfer unit taken as the packet size
FlashChunkingNoOverhead(mtu, log) ==
  /\ mtuSize' = mtu
  /\ packetSize' = mtu
  /\ UNCHANGED <<firmware, ci, progress>>
  /\ IF ChunkLoopDiverges(firmware, mtu)
       THEN /\ fstatus' = "diverged" /\ fpc' = "chunking" /\ ota' = log
            /\ UNCHANGED <<ferr, chunks>>
       ELSE /\ chunks' = ChunkLoop(firmware, mtu, 0, <<>>)
            /\ FlashGuard(log, "header_chk")

\* lines 482-492: packet size, chunk list, then the header write's guard
FlashChunking(mtu, log) ==
  /\ mtuSize' = mtu
  /\ packetSize' = mtu - MtuOverhead
  /\ UNCHANGED <<firmware, ci, progress>>
  /\ IF ChunkLoopDiverges(firmware, mtu - MtuOverhead)
       THEN /\ fstatus' = "diverged" /\ fpc' = "chunking" /\ ota' = log
            /\ UNCHANGED <<ferr, chunks>>
       ELSE /\ chunks' = ChunkLoop(firmware, mtu - MtuOverhead, 0, <<>>)
            /\ FlashGuard(log, "header_chk")

\* the entry guard with its answer not looked at
FlashEntryUnguarded ==
  /\ FlashInFlight /\ fpc = "guard"
  /\ IF PlatformOS = "ios"
       THEN FlashChunking(IOS_MTU_SIZE, Answered(ota, Bool(QueryAnswer)))
       ELSE /\ ota' = Append(Answered(ota, Bool(QueryAnswer)),
                             Call("requestMTU", device, "", <<DesiredMtu(PlatformVersion)>>,
                                  NoMax))
            /\ fpc' = "mtu"
            /\ UNCHANGED <<fstatus, ferr, locals>>
  /\ UNCHANGED <<envVars, sessVars, facade2, busVars, webVars, subVars, sensorVars, infoVars, linkUp, callbacks, device, connVars, discVars>>

\* the entry guard's query settles, lines 465-481
FlashEntry ==
  /\ FlashInFlight /\ fpc = "guard"
  /\ IF ~QueryAnswer
       THEN FlashReject(deviceNotInitMsg, Answered(ota, "false")) /\ UNCHANGED locals
       ELSE IF PlatformOS = "ios"
         THEN FlashChunking(IOS_MTU_SIZE, Answered(ota, "true"))
         ELSE /\ FlashIssue(Call("requestMTU", device, "", <<DesiredMtu(PlatformVersion)>>,
                                 NoMax), "mtu")
              /\ UNCHANGED locals
  /\ UNCHANGED <<envVars, sessVars, facade2, busVars, webVars, subVars, sensorVars, infoVars, linkUp, callbacks, device, connVars, discVars>>

\* BleManager.requestMTU settles, lines 477-481
FlashMtu ==
  /\ FlashInFlight /\ fpc = "mtu"
  /\ \/ /\ linkUp[Last(ota).dev]
        /\ \E mtu \in MtuReplies(DesiredMtu(PlatformVersion)) :
             FlashChunking(mtu, Answered(ota, "ok"))
     \/ \E err \in TransportErrors :
          FlashReject(err, Answered(ota, err)) /\ UNCHANGED locals
  /\ UNCHANGED <<envVars, sessVars, facade2, busVars, webVars, subVars, sensorVars, infoVars, linkUp, callbacks, device, connVars, discVars>>

\* a guard that issues its call whatever the query answered
FlashCheckedAnyway(call, next) ==
  /\ ota' = Append(Answered(ota, Bool(QueryAnswer)), call) /\ fpc' = next
  /\ UNCHANGED <<fstatus, ferr>>

\* a guard's query settles: the call is issued, or the guard rejects, lines 242-252
FlashChecked(call, next) ==
  IF QueryAnswer
    THEN FlashIssue(call, next)
    ELSE FlashReject(deviceNotInitMsg, Answered(ota, "false"))

\* a failed call caught and issued again
FlashFailedRetry ==
  \E err \in TransportErrors :
    /\ ota' = Append(Answered(ota, err), Last(ota))
    /\ UNCHANGED <<fpc, fstatus, ferr>>

\* the transport rejects the pending call: nothing catches it, the run rejects with it
FlashFailed ==
  \E err \in TransportErrors : FlashReject(err, Answered(ota, err))

\* the pending call was carried out on a live link
CallSucceeds == linkUp[Last(ota).dev]

flashFrame == <<envVars, sessVars, facade2, busVars, webVars, subVars, sensorVars, infoVars, linkUp, callbacks, device, connVars, discVars>>

\* lines 489-492: BleManager.write of [packetSize, flag] to OTA data
FlashHeader ==
  /\ FlashInFlight /\ fpc = "header_chk"
  /\ FlashChecked(Write(device, OTA_DATA_UUID,
                        <<packetSize, TransferModeFlag(PlatformVersion)>>, NoMax),
                  "header_io")
  /\ UNCHANGED <<locals, flashFrame>>

\* the header write settles, then wait(SEND_CHUNK_DELAY) starts, line 494
FlashHeaderSettled ==
  /\ FlashInFlight /\ fpc = "header_io"
  /\ \/ /\ CallSucceeds
        /\ ota' = Answered(ota, "ok") /\ fpc' = "wait1"
        /\ UNCHANGED <<fstatus, ferr>>
     \/ FlashFailed
  /\ UNCHANGED <<locals, flashFrame>>

\* the settling delay ends; writeChar(OTA_CONTROL_UUID, [0x01]) reaches its guard, line 497
FlashWait1 ==
  /\ FlashInFlight /\ fpc = "wait1"
  /\ FlashGuard(ota, "start_chk")
  /\ UNCHANGED <<locals, flashFrame>>

\* line 497: BleManager.write of the start command to OTA control
FlashStart ==
  /\ FlashInFlight /\ fpc = "start_chk"
  /\ FlashChecked(Write(device, OTA_CONTROL_UUID, <<OtaStart>>, NoMax), "start_io")
  /\ UNCHANGED <<locals, flashFrame>>

\* the start write settles, then the second wait starts, line 499
FlashStartSettled ==
  /\ FlashInFlight /\ fpc = "start_io"
  /\ \/ /\ CallSucceeds
        /\ ota' = Answered(ota, "ok") /\ fpc' = "wait2"
        /\ UNCHANGED <<fstatus, ferr>>
     \/ FlashFailed
  /\ UNCHANGED <<locals, flashFrame>>

\* the second delay ends; readChar(OTA_CONTROL_UUID) reaches its guard, line 501
FlashWait2 ==
  /\ FlashInFlight /\ fpc = "wait2"
  /\ FlashGuard(ota, "read_chk")
  /\ UNCHANGED <<locals, flashFrame>>

\* line 501: BleManager.read of OTA control
FlashRead ==
  /\ FlashInFlight /\ fpc = "read_chk"
  /\ FlashChecked(Read(device, OTA_CONTROL_UUID), "read_io")
  /\ UNCHANGED <<locals, flashFrame>>

\* lines 513-523: the completion command, guarded on iOS, written directly elsewhere
FlashFinalize(log) ==
  IF PlatformOS = "ios"
    THEN FlashGuard(log, "done_chk")
    ELSE /\ ota' = Append(log, Call("writeWithoutResponse", device, OTA_CONTROL_UUID,
                                    <<OtaDone>>, 1))
         /\ fpc' = "done_io"
         /\ UNCHANGED <<fstatus, ferr>>

\* a loop that stops one chunk early
FlashLoopSkipsLast(i, log) ==
  IF i + 1 < Len(chunks) THEN FlashGuard(log, "chunk_chk") ELSE FlashFinalize(log)

\* the head of the streaming loop, line 504, at index i
FlashLoop(i, log) ==
  IF i < Len(chunks) THEN FlashGuard(log, "chunk_chk") ELSE FlashFinalize(log)

\* the control read settles (its value is only logged), lines 501-504
FlashReadSettled ==
  /\ FlashInFlight /\ fpc = "read_io"
  /\ \/ /\ CallSucceeds
        /\ FlashLoop(0, Answered(ota, "ok"))
     \/ FlashFailed
  /\ UNCHANGED <<locals, flashFrame>>

\* line 506: BleManager.write of chunks[i] to OTA data, with its length as maxByteSize
FlashChunk ==
  /\ FlashInFlight /\ fpc = "chunk_chk"
  /\ FlashChecked(Write(device, OTA_DATA_UUID, chunks[ci + 1], Len(chunks[ci + 1])),
                  "chunk_io")
  /\ UNCHANGED <<locals, flashFrame>>

\* lines 507-509: onProgress(Math.round((i / chunks.length) * 100)), then i++
ReportProgress ==
  /\ progress' = Append(progress, ProgressPercent(ci, Len(chunks)))
  /\ ci' = ci + 1

\* the chunk write settles; onProgress is called and the loop goes on, lines 506-509
FlashChunkSettled ==
  /\ FlashInFlight /\ fpc = "chunk_io"
  /\ \/ /\ CallSucceeds
        /\ ReportProgress
        /\ FlashLoop(ci + 1, Answered(ota, "ok"))
     \/ FlashFailed /\ UNCHANGED <<progress, ci>>
  /\ UNCHANGED <<firmware, mtuSize, packetSize, chunks, flashFrame>>

\* line 514 (iOS): BleManager.write of the completion command to OTA control
FlashDone ==
  /\ FlashInFlight /\ fpc = "done_chk"
  /\ FlashChecked(Write(device, OTA_CONTROL_UUID, <<OtaDone>>, 1), "done_io")
  /\ UNCHANGED <<locals, flashFrame>>

\* the completion write settles, then wait(DEVICE_REBOOT_WAIT_TIME) starts, line 526
FlashDoneSettled ==
  /\ FlashInFlight /\ fpc = "done_io"
  /\ \/ /\ CallSucceeds
        /\ ota' = Answered(ota, "ok") /\ fpc' = "reboot"
        /\ UNCHANGED <<fstatus, ferr>>
     \/ FlashFailed
  /\ UNCHANGED <<locals, flashFrame>>

\* the reboot wait ends; isConnected() asks the transport, line 528
FlashReboot ==
  /\ FlashInFlight /\ fpc = "reboot"
  /\ ota' = Append(ota, Query(device)) /\ fpc' = "verify"
  /\ UNCHANGED <<fstatus, ferr, locals, flashFrame>>

\* lines 528-532: done when still connected, otherwise connect(this.device)
FlashVerify ==
  /\ FlashInFlight /\ fpc = "verify"
  /\ IF QueryAnswer
       THEN /\ fstatus' = "resolved" /\ ota' = Answered(ota, "true")
            /\ UNCHANGED <<fpc, ferr, device, connVars, sensorVars>>
       ELSE /\ ota' = Append(Answered(ota, "false"),
                             Call("connect", device, "", <<>>, NoMax))
            /\ fpc' = "reconnect"
            /\ ConnectBody(device, "flash")
            /\ UNCHANGED <<fstatus, ferr>>
  /\ UNCHANGED <<locals, envVars, sessVars, facade2, busVars, webVars, subVars, infoVars, linkUp, callbacks, discVars>>

\* the run resolving whatever became of the connect it awaited
FlashReconnectLenient ==
  /\ FlashInFlight /\ fpc = "reconnect"
  /\ cowner = "flash" /\ ~ConnectInFlight
  /\ fstatus' = "resolved" /\ ota' = Answered(ota, IF cres = "resolved" THEN "ok" ELSE cres)
  /\ UNCHANGED <<fpc, ferr>>
  /\ UNCHANGED <<locals, flashFrame>>

\* the awaited connect settles, line 530
FlashReconnect ==
  /\ FlashInFlight /\ fpc = "reconnect"
  /\ cowner = "flash" /\ ~ConnectInFlight
  /\ IF cres = "resolved"
       THEN /\ fstatus' = "resolved" /\ ota' = Answered(ota, "ok")
            /\ UNCHANGED <<fpc, ferr>>
       ELSE FlashReject(cres, Answered(ota, cres))
  /\ UNCHANGED <<locals, flashFrame>>

\* the application has seen its call settle and moves on: a settled transfer session
\* is discarded
Return ==
  /\ ~FlashInFlight /\ fstatus # "diverged"
  /\ ~ConnectInFlight /\ ~DisconnectInFlight("user") /\ gpc = "idle"
  /\ fstatus # "idle" \/ cres # "none" \/ dres # "none" \/ gres # "none"
  /\ fpc' = "idle" /\ fstatus' = "idle" /\ ferr' = "none"
  /\ firmware' = <<>> /\ mtuSize' = DEFAULT_MTU_SIZE /\ packetSize' = 0
  /\ chunks' = <<>> /\ ci' = 0 /\ progress' = <<>> /\ ota' = <<>>
  /\ cres' = "none" /\ cowner' = "none" /\ cdev' = NoDevice
  /\ dres' = "none" /\ dio' = <<>>
  /\ gname' = "none" /\ gres' = "none" /\ gval' = "" /\ gio' = <<>>
  /\ UNCHANGED <<envVars, sessVars, facade2, busVars, webVars, subVars, sensorVars, linkUp, callbacks, device, cpc, dpc, ddev, gpc>>

(* ------------------------ info getters, testDevice --------------------- *)
\* the characteristic each method addresses, lines 383-452
InfoChars ==
  [getFirmwareVersion |-> FIRMWARE_NUMBER_UUID,
   getSerialNumber |-> SERIAL_NUMBER_UUID,
   getModelNumber |-> MODEL_NUMBER_UUID,
   getManufactureName |-> MANUFACTURER_NAME_UUID,
   getDeviceName |-> READ_NAME_UUID,
   getHardwareVersion |-> HARDWARE_NUMBER_UUID,
   getBattery |-> BATTERY_LEVEL_UUID,
   testDevice |-> TEST_DEVICE_DEVICE_NAME_SERVICE_UUID]
InfoMethods == DOMAIN InfoChars
\* byte arrays BleManager.read may resolve with
ReadReplies == {<<>>, <<87>>, <<49, 46, 50>>}

\* String.fromCharCode(code): one UTF-16 code unit
fromCharCode(code) == code % 65536
\* convertToString, lines 266-273, on the array a read resolved with: the string as the
\* sequence of its code units
convertToString(data) == [k \in 1..Len(data) |-> fromCharCode(data[k])]
\* what a method returns from the bytes read: readData[0] for the battery (no element when
\* the array is empty), the string for the others
InfoValue(name, data) ==
  IF name = "getBattery" THEN SubSeq(data, 1, Min(1, Len(data))) ELSE convertToString(data)

\* the transport call behind a method: a write of [0] for testDevice, a read otherwise
InfoIo(name) ==
  IF name = "testDevice"
    THEN Write(device, InfoChars[name], <<0>>, NoMax)
    ELSE Read(device, InfoChars[name])

\* a method that calls the transport without the guard of readChar / writeChar
InfoCallUnguarded(name) ==
  /\ AppIdle
  /\ gname' = name /\ gres' = "pending" /\ gval' = ""
  /\ gio' = <<InfoIo(name)>> /\ gpc' = "io"
  /\ UNCHANGED <<envVars, sessVars, facade2, busVars, webVars, subVars, sensorVars, linkUp, callbacks, device, connVars,
                 discVars, flashVars>>

\* the application invokes one of the methods: readChar / writeChar up to the guard's
\* await, lines 242-244 and 256-258
InfoCall(name) ==
  /\ AppIdle
  /\ gname' = name
  /\ IF device = NoDevice
       THEN /\ gres' = "rejected" /\ gval' = deviceNotInitMsg
            /\ gio' = <<>> /\ gpc' = "idle"
       ELSE /\ gres' = "pending" /\ gval' = ""
            /\ gio' = <<Query(device)>> /\ gpc' = "chk"
  /\ UNCHANGED <<envVars, sessVars, facade2, busVars, webVars, subVars, sensorVars, linkUp, callbacks, device, connVars,
                 discVars, flashVars>>

\* the guard's query settles: the read or write is issued, or the method rejects
InfoChecked ==
  /\ gpc = "chk"
  /\ IF linkUp[Last(gio).dev]
       THEN /\ gio' = Append(Answered(gio, "true"), InfoIo(gname))
            /\ gpc' = "io"
            /\ UNCHANGED <<gres, gval>>
       ELSE /\ gio' = Answered(gio, "false")
            /\ gpc' = "idle" /\ gres' = "rejected" /\ gval' = deviceNotInitMsg
  /\ UNCHANGED <<envVars, sessVars, facade2, busVars, webVars, subVars, sensorVars, linkUp, callbacks, device, connVars,
                 discVars, flashVars, gname>>

\* the read or write settles: the method returns the decoded value, or rejects with the
\* transport's error
InfoSettled ==
  /\ gpc = "io"
  /\ gpc' = "idle"
  /\ \/ /\ linkUp[Last(gio).dev]
        /\ gio' = Answered(gio, "ok")
        /\ gres' = "resolved"
        /\ IF gname = "testDevice"
             THEN gval' = <<>>
             ELSE \E data \in ReadReplies : gval' = InfoValue(gname, data)
     \/ \E err \in TransportErrors :
          gio' = Answered(gio, err) /\ gres' = "rejected" /\ gval' = err
  /\ UNCHANGED <<envVars, sessVars, facade2, busVars, webVars, subVars, sensorVars, linkUp, callbacks, device, connVars,
                 discVars, flashVars, gname>>

\* isConnected() asking the transport whether or not there is a device
IsConnectedUnguarded ==
  /\ AppIdle
  /\ gname' = "isConnected"
  /\ gres' = "pending" /\ gval' = ""
  /\ gio' = <<Query(device)>> /\ gpc' = "query"
  /\ UNCHANGED <<envVars, sessVars, facade2, busVars, webVars, subVars, sensorVars, linkUp, callbacks, device, connVars,
                 discVars, flashVars>>

\* the application invokes isConnected(), lines 371-376: false at once without a device,
\* otherwise BleManager.isPeripheralConnected is awaited
IsConnectedCall ==
  /\ AppIdle
  /\ gname' = "isConnected"
  /\ IF device = NoDevice
       THEN /\ gres' = "resolved" /\ gval' = Bool(FALSE)
            /\ gio' = <<>> /\ gpc' = "idle"
       ELSE /\ gres' = "pending" /\ gval' = ""
            /\ gio' = <<Query(device)>> /\ gpc' = "query"
  /\ UNCHANGED <<envVars, sessVars, facade2, busVars, webVars, subVars, sensorVars, linkUp, callbacks, device, connVars,
                 discVars, flashVars>>

\* isPeripheralConnected settles and isConnected() returns its answer, line 373
IsConnectedSettled ==
  /\ gpc = "query"
  /\ gio' = Answered(gio, Bool(linkUp[Last(gio).dev]))
  /\ gpc' = "idle" /\ gres' = "resolved" /\ gval' = Bool(linkUp[Last(gio).dev])
  /\ UNCHANGED <<envVars, sessVars, facade2, busVars, webVars, subVars, sensorVars, linkUp, callbacks, device, connVars,
                 discVars, flashVars, gname>>

(* ------------------------- axis notifications -------------------------- *)
\* `Property ${propName} does not exist on DeviceData.`, line 213
NoProperty(propName) == "Property " \o propName \o " does not exist on DeviceData."

\* the magnitude handed on as it is
ScaleNot(percent) == percent

\* Math.min(percent * 20, 100), line 355
Scale(percent) == Min(percent * 20, 100)

\* the handler connect() passes to subscribe for the device it was called with,
\* lines 344-358; a tag set_fffx does not know makes it throw before anything is stored
Handler(d, characteristic, value) ==
  IF characteristic # "" /\ characteristic \notin AxisTags
    THEN /\ raised' = NoProperty(characteristic)
         /\ UNCHANGED <<notificationData, acceleration, emitted, lastNotified, inbox>>
    ELSE LET data == IF characteristic # ""
                       THEN set_fffx(notificationData, characteristic, value)
                       ELSE notificationData
             percent == calculateTotalAcceleration(data)
         IN  /\ notificationData' = data
             /\ raised' = ""
             /\ lastNotified' = IF characteristic # ""
                                  THEN [lastNotified EXCEPT ![characteristic] = <<value>>]
                                  ELSE lastNotified
             /\ IF acceleration # percent
                  THEN /\ acceleration' = percent
                       /\ emitted' = SensorEvent(d, Scale(percent))
                       /\ SensorEmit(d, Scale(percent))
                  ELSE UNCHANGED <<acceleration, emitted, inbox>>

\* the listener holding back what arrives while a transfer is in progress
NotifyPaused(d, characteristic, value) ==
  /\ linkUp[d] /\ characteristic \in notifying[d]
  /\ InboxRoom(d)
  /\ IF callbacks[d] = NoEntry \/ ~callbacks[d].callback \/ FlashInFlight
       THEN UNCHANGED sensorVars
       ELSE Handler(d, characteristic, value)
  /\ UNCHANGED <<envVars, sessVars, facade2, busVars, webVars, subVars, infoVars, linkUp, callbacks, device,
                 connVars, discVars, flashVars>>

\* the listener calling whatever the entry holds as its callback
NotifyUnchecked(d, characteristic, value) ==
  /\ linkUp[d] /\ characteristic \in notifying[d]
  /\ InboxRoom(d)
  /\ IF callbacks[d] = NoEntry
       THEN UNCHANGED sensorVars
       ELSE Handler(d, characteristic, value)
  /\ UNCHANGED <<envVars, sessVars, facade2, busVars, webVars, subVars, infoVars, linkUp,
                 callbacks, device, connVars, discVars, flashVars>>

\* the listener handing on only what arrives on the characteristic of the table entry
NotifyFiltered(d, characteristic, value) ==
  /\ linkUp[d] /\ characteristic \in notifying[d]
  /\ InboxRoom(d)
  /\ IF callbacks[d] = NoEntry \/ ~callbacks[d].callback
          \/ callbacks[d].characteristic # characteristic
       THEN UNCHANGED sensorVars
       ELSE Handler(d, characteristic, value)
  /\ UNCHANGED <<envVars, sessVars, facade2, busVars, webVars, subVars, infoVars, linkUp, callbacks, device,
                 connVars, discVars, flashVars>>

\* BleManagerDidUpdateValueForCharacteristic from peripheral d, BleManagerSensor.ts
\* lines 15-29: dropped without an entry or without a callback, else handed on
Notify(d, characteristic, value) ==
  /\ linkUp[d] /\ characteristic \in notifying[d]
  /\ InboxRoom(d)
  /\ IF callbacks[d] = NoEntry \/ ~callbacks[d].callback
       THEN UNCHANGED sensorVars
       ELSE Handler(d, characteristic, value)
  /\ UNCHANGED <<envVars, sessVars, facade2, busVars, webVars, subVars, infoVars, linkUp, callbacks, device, connVars,
                 discVars, flashVars>>

\* what a notification may carry as its characteristic besides an axis tag: nothing, or
\* another characteristic of the peripheral whose notifications someone has started
StrayTags == {"", BATTERY_LEVEL_UUID}

\* BleManagerDidUpdateValueForCharacteristic from peripheral d that is not about an axis:
\* the listener of BleManagerSensor.ts lines 15-29 does not look at the characteristic
NotifyOther(d, characteristic, value) ==
  /\ linkUp[d] /\ characteristic \in StrayTags
  /\ InboxRoom(d)
  /\ IF callbacks[d] = NoEntry \/ ~callbacks[d].callback
       THEN UNCHANGED sensorVars
       ELSE Handler(d, characteristic, value)
  /\ UNCHANGED <<envVars, sessVars, facade2, busVars, webVars, subVars, infoVars, linkUp, callbacks, device, connVars,
                 discVars, flashVars>>

(* ------------------- the application's calls on sensor ----------------- *)
\* sensor.subscribe(deviceId, listener), lines 48-50
SensorSubscribe(deviceId, l) ==
  /\ Len(listeners[deviceId]) < MaxListeners
  /\ listeners' = [listeners EXCEPT ![deviceId] = AddListener(@, l)]
  /\ busOp' = [op |-> "subscribe", device |-> deviceId, listener |-> l,
               registered |-> Count(l, listeners[deviceId]) > 0]
  /\ UNCHANGED <<envVars, sessVars, facade2, webVars, subVars, sensorVars, infoVars, linkUp, callbacks, device,
                 connVars, discVars, flashVars>>

\* the application subscribes a listener it has not subscribed yet
SubscribeOnce(deviceId, l) ==
  /\ Count(l, listeners[deviceId]) = 0
  /\ SensorSubscribe(deviceId, l)

\* sensor.unsubscribe(deviceId, listener), lines 57-59
SensorUnsubscribe(deviceId, l) ==
  /\ listeners' = [listeners EXCEPT ![deviceId] = RemoveListener(@, l)]
  /\ busOp' = [op |-> "unsubscribe", device |-> deviceId, listener |-> l,
               registered |-> Count(l, listeners[deviceId]) > 0]
  /\ UNCHANGED <<envVars, sessVars, facade2, webVars, subVars, sensorVars, infoVars, linkUp, callbacks, device,
                 connVars, discVars, flashVars>>

\* sensor.emit(device, percent) called on the bus itself, lines 36-41
SensorEmitCall(dev, percent) ==
  /\ InboxRoom(dev)
  /\ SensorEmit(dev, percent)
  /\ emitted' = SensorEvent(dev, percent)
  /\ busOp' = [op |-> "emit", device |-> dev, listener |-> "none", registered |-> FALSE]
  /\ UNCHANGED <<notificationData, acceleration, lastNotified, raised, listeners>>
  /\ UNCHANGED <<envVars, sessVars, facade2, webVars, subVars, infoVars, linkUp, callbacks, device, connVars,
                 discVars, flashVars>>

(* ------------------ the web facade (src/react/README.md) --------------- *)
\* DEFAULT_MTU_SIZE of the web facade, line 154
WEB_DEFAULT_MTU_SIZE == 256
\* const packetSize = DEFAULT_MTU_SIZE - 3, line 644
WebPacketSize == WEB_DEFAULT_MTU_SIZE - MtuOverhead
\* the order disconnect() removes the axis listeners in, lines 568-570
AxisOrder == <<CHAR_X_UUID, CHAR_Y_UUID, CHAR_Z_UUID>>
WebMethods == InfoMethods \cup {"flashFirmware"}

\* controlService.getCharacteristic(ch), characteristic.readValue(), .writeValue(data),
\* device.gatt.connect(), server.getPrimaryService(KIIROO_CONTROL_SERVICE_UUID)
GetCharacteristic(dev, ch) == Call("getCharacteristic", dev, ch, <<>>, NoMax)
ReadValue(dev, ch) == Call("readValue", dev, ch, <<>>, NoMax)
WriteValue(dev, ch, data) == Call("writeValue", dev, ch, data, NoMax)
GattConnect(dev) == Call("gatt.connect", dev, "", <<>>, NoMax)
GetPrimaryService(dev) == Call("getPrimaryService", dev, KIIROO_CONTROL_SERVICE_UUID, <<>>, NoMax)
\* onProgress(percent), lines 677-679
OnProgress(percent) == Call("onProgress", NoDevice, "", <<percent>>, NoMax)

\* isConnected(), lines 546-548
WebIsConnected == wdevice # NoDevice /\ linkUp[wdevice]

\* `!this.controlService || !this.isConnected`, lines 384, 556, 616, 638: the second
\* operand negates the method itself, which is a function and never falsy
WebGuard == controlService = NoDevice \/ FALSE

\* the application awaits each call on the web facade before it makes the next one
WebIdle == wpc = "idle" /\ wres = "none"

WebSettle(status, value, log) ==
  /\ wres' = status /\ wval' = value /\ wio' = log /\ wpc' = "idle"

\* what the web facade leaves alone of the React Native facade
nativeVars == <<envVars, sessVars, facade2, busVars, sensorVars, infoVars, callbacks, device, connVars, discVars,
                flashVars>>

\* the most listeners one characteristic object is followed with
MaxRegistrations == 2
\* the characteristic objects have room for the listeners one more connect() adds
WebListenerRoom == wstale \/ \A char \in AxisTags : wlisteners[char] < MaxRegistrations

\* connect(device), lines 583-590, for a device that has a gatt server
WebConnectCall(d) ==
  /\ WebIdle
  /\ WebListenerRoom
  /\ wname' = "connect" /\ wconn' = WebIsConnected
  /\ wdevice' = d
  /\ wres' = "pending" /\ wval' = "" /\ wio' = <<GattConnect(d)>> /\ wpc' = "gatt"
  /\ UNCHANGED <<controlService, wsetup, wchunks, wi, wsensVars, nativeVars, linkUp, subVars>>

\* device.gatt.connect() settles, line 590; then getPrimaryService is issued
WebConnectSettled ==
  /\ wpc = "gatt"
  /\ \/ /\ linkUp' = [linkUp EXCEPT ![wdevice] = TRUE]
        /\ wio' = Append(Answered(wio, "ok"), GetPrimaryService(wdevice))
        /\ wpc' = "service"
        /\ UNCHANGED <<wres, wval>>
     \/ /\ \E err \in TransportErrors : WebSettle("rejected", err, Answered(wio, err))
        /\ UNCHANGED linkUp
  /\ UNCHANGED <<wdevice, controlService, wsetup, wname, wconn, wchunks, wi, wsensVars, nativeVars,
                 subVars>>

\* getPrimaryService settles, lines 591-606: the three setUpListener calls are started
\* and not awaited, so the try block cannot catch what they reject with
WebServiceSettled ==
  /\ wpc = "service"
  /\ \/ /\ linkUp[wdevice]
        /\ controlService' = wdevice
        /\ wsetup' = AxisTags
        /\ wlisteners' = IF wstale \/ controlService # wdevice THEN NoListeners ELSE wlisteners
        /\ wstale' = FALSE
        /\ WebSettle("resolved", "", Answered(wio, "ok"))
     \/ /\ \E err \in TransportErrors : WebSettle("rejected", err, Answered(wio, err))
        /\ UNCHANGED <<controlService, wsetup, wlisteners, wstale>>
  /\ UNCHANGED <<wdevice, wname, wconn, wchunks, wi, waxis, sensorEventListenerCallBack, wnote,
                 nativeVars, linkUp, subVars>>

\* eChar.addEventListener('characteristicvaluechanged', async event => ...), lines
\* 209-211: one more listener on the characteristic object, a new function each time
AddEventListener(regs, char) == [regs EXCEPT ![char] = @ + 1]

\* eChar.removeEventListener('characteristicvaluechanged', handler), line 227: handler is
\* the method itself, which setUpListener never added (it added an arrow function that
\* calls it), so no listener is taken off
RemoveEventListener(regs, char) == regs

\* setUpListener(char, handler), lines 203-213, settles: notifications are started on
\* the characteristic and its listener is added, or the call rejects and nobody hears
\* of it; a service obtained before the link was closed is of no use any more
WebSetUpListener(char) ==
  /\ char \in wsetup
  /\ wsetup' = wsetup \ {char}
  /\ \/ /\ linkUp[controlService] /\ ~wstale
        /\ notifying' = [notifying EXCEPT ![controlService] = @ \cup {char}]
        /\ wlisteners' = AddEventListener(wlisteners, char)
     \/ UNCHANGED <<notifying, wlisteners>>
  /\ UNCHANGED <<wdevice, controlService, wpc, wname, wres, wval, wio, wconn, wchunks, wi,
                 waxis, sensorEventListenerCallBack, wstale, wnote, nativeVars, linkUp, stops>>

\* device.gatt.disconnect(), which returns at once
GattDisconnect(dev) == [Call("gatt.disconnect", dev, "", <<>>, NoMax) EXCEPT !.st = "ok"]

\* the link to d closes: the service and characteristic objects obtained over it are
\* dead, the browser builds new ones when they are asked for again
WebLinkClosed(d) ==
  /\ LinkClosed(d)
  /\ wstale' = (wstale \/ d = controlService)

\* this.device?.gatt!.disconnect(), line 574: nothing is called without a device
WebGattDisconnect ==
  IF wdevice = NoDevice THEN UNCHANGED <<linkUp, subVars, wstale>> ELSE WebLinkClosed(wdevice)

\* the calls of log, and the gatt.disconnect() that line 574 adds when there is a device
WebGattLog(log) == IF wdevice = NoDevice THEN log ELSE Append(log, GattDisconnect(wdevice))

\* the peripheral of the web facade goes out of range, powers off or reboots
WebLinkDrop(d) ==
  /\ linkUp[d]
  /\ WebLinkClosed(d)
  /\ UNCHANGED <<wdevice, controlService, wsetup, wpc, wname, wres, wval, wio, wconn, wchunks,
                 wi, waxis, sensorEventListenerCallBack, wlisteners, wnote, nativeVars>>

\* disconnect() refusing to run without a service, the way the getters do
WebDisconnectGuarded ==
  /\ WebIdle
  /\ wname' = "disconnect" /\ wconn' = WebIsConnected
  /\ IF controlService = NoDevice
       THEN /\ WebSettle("rejected", deviceNotInitMsg, <<>>)
            /\ UNCHANGED <<wi, linkUp, subVars, wstale>>
       ELSE /\ wres' = "pending" /\ wval' = "" /\ wpc' = "remove"
            /\ wi' = 1
            /\ wio' = <<GetCharacteristic(controlService, AxisOrder[1])>>
            /\ UNCHANGED <<linkUp, subVars, wstale>>
  /\ UNCHANGED <<wdevice, controlService, wsetup, wchunks, waxis, sensorEventListenerCallBack,
                 wlisteners, wnote, nativeVars>>

\* disconnect(), lines 566-575, up to its first await; without a service removeListener
\* throws at once, which the catch block swallows
WebDisconnectCall ==
  /\ WebIdle
  /\ wname' = "disconnect" /\ wconn' = WebIsConnected
  /\ IF controlService = NoDevice
       THEN /\ WebGattDisconnect
            /\ WebSettle("resolved", "", WebGattLog(<<>>))
            /\ UNCHANGED wi
       ELSE /\ wres' = "pending" /\ wval' = "" /\ wpc' = "remove"
            /\ wi' = 1
            /\ wio' = <<GetCharacteristic(controlService, AxisOrder[1])>>
            /\ UNCHANGED <<linkUp, subVars, wstale>>
  /\ UNCHANGED <<wdevice, controlService, wsetup, wchunks, waxis, sensorEventListenerCallBack,
                 wlisteners, wnote, nativeVars>>

\* removeListener(char, handler), lines 221-229, settles for axis wi: it starts the
\* notifications once more and removes the listener; a rejection ends the try block
WebRemoveSettled ==
  /\ wpc = "remove"
  /\ \/ /\ linkUp[controlService] /\ ~wstale
        /\ wlisteners' = RemoveEventListener(wlisteners, AxisOrder[wi])
        /\ IF wi < Len(AxisOrder)
             THEN /\ notifying' = [notifying EXCEPT ![controlService] = @ \cup {AxisOrder[wi]}]
                  /\ wi' = wi + 1
                  /\ wio' = Append(Answered(wio, "ok"),
                                   GetCharacteristic(controlService, AxisOrder[wi + 1]))
                  /\ UNCHANGED <<wpc, wres, wval, linkUp, stops, wstale>>
             ELSE /\ WebGattDisconnect
                  /\ WebSettle("resolved", "", WebGattLog(Answered(wio, "ok")))
                  /\ wi' = 0
     \/ /\ \E err \in TransportErrors :
             WebSettle("resolved", "", WebGattLog(Answered(wio, err)))
        /\ WebGattDisconnect
        /\ wi' = 0
        /\ UNCHANGED wlisteners
  /\ UNCHANGED <<wdevice, controlService, wsetup, wname, wconn, wchunks, waxis,
                 sensorEventListenerCallBack, wnote, nativeVars>>

\* an info getter or testDevice up to its first await, lines 383-540, 615-625
WebCall(name) ==
  /\ WebIdle
  /\ wname' = name /\ wconn' = WebIsConnected
  /\ IF WebGuard
       THEN WebSettle("rejected", deviceNotInitMsg, <<>>)
       ELSE /\ wres' = "pending" /\ wval' = "" /\ wpc' = "char"
            /\ wio' = <<GetCharacteristic(controlService, InfoChars[name])>>
  /\ UNCHANGED <<wdevice, controlService, wsetup, wchunks, wi, wsensVars, nativeVars, linkUp, subVars>>

\* getCharacteristic settles: the read, or the write of [0] for testDevice, is issued
WebGotCharacteristic ==
  /\ wpc = "char"
  /\ \/ /\ linkUp[Last(wio).dev]
        /\ wio' = Append(Answered(wio, "ok"),
                         IF wname = "testDevice"
                           THEN WriteValue(Last(wio).dev, Last(wio).ch, <<0>>)
                           ELSE ReadValue(Last(wio).dev, Last(wio).ch))
        /\ wpc' = "io"
        /\ UNCHANGED <<wres, wval>>
     \/ \E err \in TransportErrors : WebSettle("rejected", err, Answered(wio, err))
  /\ UNCHANGED <<wdevice, controlService, wsetup, wname, wconn, wchunks, wi, wsensVars, nativeVars,
                 linkUp, subVars>>

\* what a getter makes of the bytes read: getUint8(0) for the battery, which throws on
\* an empty view and is caught (lines 531-539), the string for the others
WebValue(name, data) ==
  IF name = "getBattery"
    THEN IF Len(data) = 0 THEN <<-1>> ELSE <<data[1]>>
    ELSE convertToString(data)

\* readValue or writeValue settles; getBattery catches a failed read and returns -1
WebSettled ==
  /\ wpc = "io"
  /\ \/ /\ linkUp[Last(wio).dev]
        /\ IF wname = "testDevice"
             THEN WebSettle("resolved", <<>>, Answered(wio, "ok"))
             ELSE \E data \in ReadReplies :
                    WebSettle("resolved", WebValue(wname, data), Answered(wio, "ok"))
     \/ \E err \in TransportErrors :
          IF wname = "getBattery"
            THEN WebSettle("resolved", <<-1>>, Answered(wio, err))
            ELSE WebSettle("rejected", err, Answered(wio, err))
  /\ UNCHANGED <<wdevice, controlService, wsetup, wname, wconn, wchunks, wi, wsensVars, nativeVars,
                 linkUp, subVars>>

\* isDeviceInitialized(), lines 554-560
WebInitialized ==
  /\ WebIdle
  /\ wname' = "isDeviceInitialized" /\ wconn' = WebIsConnected
  /\ WebSettle("returned", IF WebGuard THEN deviceNotInitMsg ELSE "", <<>>)
  /\ UNCHANGED <<wdevice, controlService, wsetup, wchunks, wi, wsensVars, nativeVars, linkUp, subVars>>

\* flashFirmware(firmware, onProgress), lines 634-655: the guard, the chunks, then the
\* first getCharacteristic
WebFlashCall(fw) ==
  /\ WebIdle
  /\ wname' = "flashFirmware" /\ wconn' = WebIsConnected
  /\ IF WebGuard
       THEN /\ WebSettle("rejected", deviceNotInitMsg, <<>>)
            /\ UNCHANGED <<wchunks, wi>>
       ELSE /\ wchunks' = ChunkLoop(fw, WebPacketSize, 0, <<>>)
            /\ wi' = 0
            /\ wres' = "pending" /\ wval' = "" /\ wpc' = "otaChar"
            /\ wio' = <<GetCharacteristic(controlService, OTA_DATA_UUID)>>
  /\ UNCHANGED <<wdevice, controlService, wsetup, wsensVars, nativeVars, linkUp, subVars>>

\* the write that follows the start command or a chunk, lines 672-687: the next chunk,
\* or the completion command after the last one
WebFlashNext(i) ==
  IF i < Len(wchunks)
    THEN WriteValue(controlService, OTA_DATA_UUID, wchunks[i + 1])
    ELSE WriteValue(controlService, OTA_CONTROL_UUID, <<OtaDone>>)

\* the call flashFirmware awaits settles, lines 654-689; the timers between the writes
\* and the reboot wait are not told apart from the writes they follow
WebFlashSettled ==
  /\ wpc \in {"otaChar", "ctrlChar", "header", "start", "chunk", "done"}
  /\ \/ /\ linkUp[controlService]
        /\ CASE wpc = "otaChar" ->
                  /\ wio' = Append(Answered(wio, "ok"),
                                   GetCharacteristic(controlService, OTA_CONTROL_UUID))
                  /\ wpc' = "ctrlChar"
                  /\ UNCHANGED <<wres, wval, wi>>
             [] wpc = "ctrlChar" ->
                  /\ wio' = Append(Answered(wio, "ok"),
                                   WriteValue(controlService, OTA_DATA_UUID,
                                              <<WebPacketSize, 0>>))
                  /\ wpc' = "header"
                  /\ UNCHANGED <<wres, wval, wi>>
             [] wpc = "header" ->
                  /\ wio' = Append(Answered(wio, "ok"),
                                   WriteValue(controlService, OTA_CONTROL_UUID, <<OtaStart>>))
                  /\ wpc' = "start"
                  /\ UNCHANGED <<wres, wval, wi>>
             [] wpc = "start" ->
                  /\ wio' = Append(Answered(wio, "ok"), WebFlashNext(0))
                  /\ wpc' = IF Len(wchunks) > 0 THEN "chunk" ELSE "done"
                  /\ UNCHANGED <<wres, wval, wi>>
             [] wpc = "chunk" ->
                  /\ wio' = Answered(wio, "ok")
                            \o <<OnProgress(ProgressPercent(wi, Len(wchunks))),
                                 WebFlashNext(wi + 1)>>
                  /\ wi' = wi + 1
                  /\ wpc' = IF wi + 1 < Len(wchunks) THEN "chunk" ELSE "done"
                  /\ UNCHANGED <<wres, wval>>
             [] wpc = "done" ->
                  /\ WebSettle("resolved", "", Answered(wio, "ok"))
                  /\ UNCHANGED wi
     \/ /\ \E err \in TransportErrors : WebSettle("rejected", err, Answered(wio, err))
        /\ UNCHANGED wi
  /\ UNCHANGED <<wdevice, controlService, wsetup, wname, wconn, wchunks, wsensVars, nativeVars,
                 linkUp, subVars>>

\* setEventListenerCallBack(cb), lines 350-352
WebSetCallback ==
  /\ ~sensorEventListenerCallBack
  /\ sensorEventListenerCallBack' = TRUE
  /\ UNCHANGED <<wdevice, controlService, wsetup, wpc, wname, wres, wval, wio, wconn, wchunks,
                 wi, waxis, wlisteners, wstale, wnote, nativeVars, linkUp, subVars>>

\* characteristicvaluechanged on an axis characteristic of the service in
\* controlService: each listener on it runs its handler (lines 269-316), which stores
\* the first byte in the field of its axis and calls the callback if there is one
WebNotify(char, value) ==
  /\ controlService # NoDevice /\ linkUp[controlService] /\ ~wstale
  /\ char \in notifying[controlService]
  /\ waxis' = IF wlisteners[char] > 0 THEN set_fffx(waxis, char, value) ELSE waxis
  /\ wnote' = [char |-> char, runs |-> wlisteners[char],
               calls |-> IF sensorEventListenerCallBack THEN wlisteners[char] ELSE 0]
  /\ UNCHANGED <<wdevice, controlService, wsetup, wpc, wname, wres, wval, wio, wconn, wchunks,
                 wi, sensorEventListenerCallBack, wlisteners, wstale, nativeVars, linkUp,
                 subVars>>

\* the read of device.gatt.connected and what it gave
GattConnected(dev) ==
  [Call("gatt.connected", dev, "", <<>>, NoMax) EXCEPT !.st = Bool(linkUp[dev])]

\* isConnected(), lines 546-548, called by the application: `!!this.device?.gatt?.connected`
\* reads nothing when there is no device
WebIsConnectedCall ==
  /\ WebIdle
  /\ wname' = "isConnected" /\ wconn' = WebIsConnected
  /\ WebSettle("returned", Bool(WebIsConnected),
               IF wdevice = NoDevice THEN <<>> ELSE <<GattConnected(wdevice)>>)
  /\ UNCHANGED <<wdevice, controlService, wsetup, wchunks, wi, wsensVars, nativeVars, linkUp, subVars>>

\* the application has seen its call on the web facade settle and moves on
WebReturn ==
  /\ wpc = "idle" /\ wres # "none"
  /\ wname' = "none" /\ wres' = "none" /\ wval' = "" /\ wio' = <<>>
  /\ wconn' = FALSE /\ wchunks' = <<>> /\ wi' = 0
  /\ UNCHANGED <<wdevice, controlService, wsetup, wpc, wsensVars, nativeVars, linkUp, subVars>>

(* --------------------------- specification ---------------------------- *)
Next ==
  \/ \E d \in FlashDevices \cup {NoDevice} : ConnectCall(d)
  \/ ConnectLink
  \/ ConnectServices
  \/ ConnectSubXY
  \/ ConnectSubZ
  \/ DisconnectCall
  \/ \E s \in DiscCallers : DisconnectChecked(s)
  \/ \E s \in DiscCallers : DisconnectUnsubscribed(s)
  \/ \E s \in DiscCallers : DisconnectIntent(s)
  \/ \E s \in DiscCallers : DisconnectIntentSettled(s)
  \/ \E s \in DiscCallers : DisconnectClosed(s)
  \/ \E d \in Devices : LinkDrop(d)
  \/ \E fw \in FirmwareImages : FlashCall(fw)
  \/ FlashEntry
  \/ FlashMtu
  \/ FlashHeader
  \/ FlashHeaderSettled
  \/ FlashWait1
  \/ FlashStart
  \/ FlashStartSettled
  \/ FlashWait2
  \/ FlashRead
  \/ FlashReadSettled
  \/ FlashChunk
  \/ FlashChunkSettled
  \/ FlashDone
  \/ FlashDoneSettled
  \/ FlashReboot
  \/ FlashVerify
  \/ FlashReconnect
  \/ Return

Spec == Init /\ [][Next]_vars

(* the info methods on a facade whose device connects, disconnects and drops *)
NextInfo ==
  \/ \E d \in FlashDevices \cup {NoDevice} : ConnectCall(d)
  \/ ConnectLink
  \/ ConnectServices
  \/ ConnectSubXY
  \/ ConnectSubZ
  \/ DisconnectCall
  \/ \E s \in DiscCallers : DisconnectChecked(s)
  \/ \E s \in DiscCallers : DisconnectUnsubscribed(s)
  \/ \E s \in DiscCallers : DisconnectIntent(s)
  \/ \E s \in DiscCallers : DisconnectIntentSettled(s)
  \/ \E s \in DiscCallers : DisconnectClosed(s)
  \/ \E d \in Devices : LinkDrop(d)
  \/ \E name \in InfoMethods : InfoCall(name)
  \/ InfoChecked
  \/ InfoSettled
  \/ Return

SpecInfo == Init /\ [][NextInfo]_vars

(* the sensor path: the peripheral notifies while the facade connects and disconnects *)
NextSensor ==
  \/ \E d \in FlashDevices \cup {NoDevice} : ConnectCall(d)
  \/ ConnectLink
  \/ ConnectServices
  \/ ConnectSubXY
  \/ ConnectSubZ
  \/ DisconnectCall
  \/ \E s \in DiscCallers : DisconnectChecked(s)
  \/ \E s \in DiscCallers : DisconnectUnsubscribed(s)
  \/ \E s \in DiscCallers : DisconnectIntent(s)
  \/ \E s \in DiscCallers : DisconnectIntentSettled(s)
  \/ \E s \in DiscCallers : DisconnectClosed(s)
  \/ \E d \in Devices : LinkDrop(d)
  \/ \E d \in Devices, char \in AxisTags, value \in SensorValues : Notify(d, char, value)
  \/ Return

SpecSensor == Init /\ [][NextSensor]_vars

(* the sensor path with a subscriber: one listener comes and goes on the bus while the
   facade connects, connects again, and the peripheral notifies *)
EventListeners == {"l1"}
InitEvents == Init /\ PlatformOS = "ios" /\ PlatformVersion = FastModeVersion

NextEvents ==
  \/ \E d \in FlashDevices : ConnectCall(d)
  \/ ConnectLink
  \/ ConnectServices
  \/ ConnectSubXY
  \/ ConnectSubZ
  \/ \E d \in FlashDevices, char \in AxisTags, value \in SensorValues : Notify(d, char, value)
  \/ \E d \in FlashDevices, l \in EventListeners : SensorSubscribe(d, l)
  \/ \E d \in FlashDevices, l \in EventListeners : SensorUnsubscribe(d, l)
  \/ Return

SpecEvents == InitEvents /\ [][NextEvents]_vars

(* two peripherals on one facade: the application connects to one, then to the other,
   and both notify; the listener follows one of them *)
NextTwo ==
  \/ \E d \in Devices : ConnectCall(d)
  \/ ConnectLink
  \/ ConnectServices
  \/ ConnectSubXY
  \/ ConnectSubZ
  \/ \E d \in Devices, value \in SensorValues : Notify(d, CHAR_X_UUID, value)
  \/ \E d \in FlashDevices, l \in EventListeners : SubscribeOnce(d, l)
  \/ Return

SpecTwo == InitEvents /\ [][NextTwo]_vars

(* two KiirooControl instances of one application and the one callback table of
   BleManagerSensor.ts; the second instance's transport calls succeed *)
facade2Frame ==
  <<envVars, sessVars, busVars, webVars, sensorVars, infoVars, device, connVars, discVars,
    flashVars>>

\* connect(d) called on the second instance, lines 320-328
Facade2ConnectCall(d) ==
  /\ facade2.pc = "idle"
  /\ facade2' = [facade2 EXCEPT !.pc = "connect", !.device = d,
                                !.notificationData = DeviceData(0, 0, 0)]
  /\ UNCHANGED <<facade2Frame, linkUp, subVars, callbacks>>

\* its BleManager.connect and retrieveServices resolve, lines 328-329
Facade2Link ==
  /\ facade2.pc \in {"connect", "services"}
  /\ linkUp' = [linkUp EXCEPT ![facade2.device] = TRUE]
  /\ facade2' = [facade2 EXCEPT !.pc = IF facade2.pc = "connect" THEN "services" ELSE "subX"]
  /\ UNCHANGED <<facade2Frame, subVars, callbacks>>

\* one of its three subscribe calls resolves, lines 330-359
Facade2Subscribed ==
  /\ facade2.pc \in {"subX", "subY", "subZ"}
  /\ linkUp[facade2.device]
  /\ SubscribeBy(2, facade2.device,
                 CASE facade2.pc = "subX" -> CHAR_X_UUID
                   [] facade2.pc = "subY" -> CHAR_Y_UUID
                   [] facade2.pc = "subZ" -> CHAR_Z_UUID,
                 facade2.pc = "subZ")
  /\ facade2' = [facade2 EXCEPT !.pc = CASE facade2.pc = "subX" -> "subY"
                                          [] facade2.pc = "subY" -> "subZ"
                                          [] facade2.pc = "subZ" -> "idle"]
  /\ UNCHANGED <<facade2Frame, linkUp, stops>>

\* the handler of the second instance, lines 344-358
Facade2Handler(characteristic, value) ==
  LET data == set_fffx(facade2.notificationData, characteristic, value)
  IN  facade2' = [facade2 EXCEPT !.notificationData = data,
                                 !.acceleration = calculateTotalAcceleration(data)]

\* BleManagerDidUpdateValueForCharacteristic from peripheral d with two instances in the
\* application, BleManagerSensor.ts lines 15-29: the callback of the entry is called,
\* whichever instance it belongs to
NotifyShared(d, characteristic, value) ==
  IF callbacks[d].callback /\ callbacks[d].owner = 2
    THEN /\ linkUp[d] /\ characteristic \in notifying[d]
         /\ Facade2Handler(characteristic, value)
         /\ UNCHANGED <<facade2Frame, linkUp, subVars, callbacks>>
    ELSE Notify(d, characteristic, value)

NextFacades ==
  \/ \E d \in FlashDevices : ConnectCall(d)
  \/ ConnectLink
  \/ ConnectServices
  \/ ConnectSubXY
  \/ ConnectSubZ
  \/ \E d \in FlashDevices : Facade2ConnectCall(d)
  \/ Facade2Link
  \/ Facade2Subscribed
  \/ \E d \in FlashDevices, value \in SensorValues : NotifyShared(d, CHAR_X_UUID, value)
  \/ Return

SpecFacades == InitEvents /\ [][NextFacades]_vars

(* notifications that are not about an axis reach the handler too *)
NextStray ==
  \/ \E d \in FlashDevices : ConnectCall(d)
  \/ ConnectLink
  \/ ConnectServices
  \/ ConnectSubXY
  \/ ConnectSubZ
  \/ \E d \in FlashDevices, char \in AxisTags, value \in SensorValues : Notify(d, char, value)
  \/ \E d \in FlashDevices, char \in StrayTags, value \in SensorValues :
       NotifyOther(d, char, value)
  \/ \E d \in FlashDevices, l \in EventListeners : SubscribeOnce(d, l)
  \/ Return

SpecStray == InitEvents /\ [][NextStray]_vars

(* the web facade: connect, disconnect, the getters, testDevice, flashFirmware *)
NextWeb ==
  \/ \E d \in FlashDevices : WebConnectCall(d)
  \/ WebConnectSettled
  \/ WebServiceSettled
  \/ \E char \in AxisTags : WebSetUpListener(char)
  \/ WebDisconnectCall
  \/ WebRemoveSettled
  \/ \E name \in InfoMethods : WebCall(name)
  \/ WebGotCharacteristic
  \/ WebSettled
  \/ WebInitialized
  \/ \E fw \in FirmwareImages : WebFlashCall(fw)
  \/ WebFlashSettled
  \/ WebReturn
  \/ \E d \in FlashDevices : WebLinkDrop(d)

SpecWeb == InitEvents /\ [][NextWeb]_vars

(* the web facade's sensor path: the application connects a device it is not connected
   to, disconnects, sets its callback, and the peripheral notifies and drops the link *)
WebConnectCycle(d) == ~WebIsConnected /\ WebConnectCall(d)

NextWebSensor ==
  \/ \E d \in FlashDevices : WebConnectCycle(d)
  \/ WebConnectSettled
  \/ WebServiceSettled
  \/ \E char \in AxisTags : WebSetUpListener(char)
  \/ WebDisconnectCall
  \/ WebRemoveSettled
  \/ WebSetCallback
  \/ \E char \in AxisTags, value \in SensorValues : WebNotify(char, value)
  \/ \E d \in FlashDevices : WebLinkDrop(d)
  \/ WebReturn

SpecWebSensor == InitEvents /\ [][NextWebSensor]_vars

(* a facade of each variant from its construction on: the React Native one is given
   peripheral A, the web one peripheral B; the application asks each whether it is
   connected before, while and after it connects *)
WebDevices == Devices \ FlashDevices
FreshValues == {MaxAxis}

NextFresh ==
  \/ \E d \in FlashDevices \cup {NoDevice} : ConnectCall(d)
  \/ ConnectLink
  \/ ConnectServices
  \/ ConnectSubXY
  \/ ConnectSubZ
  \/ \E d \in FlashDevices, value \in FreshValues : Notify(d, CHAR_X_UUID, value)
  \/ IsConnectedCall
  \/ IsConnectedSettled
  \/ \E d \in FlashDevices : LinkDrop(d)
  \/ Return
  \/ \E d \in WebDevices : WebConnectCall(d)
  \/ WebConnectSettled
  \/ WebServiceSettled
  \/ WebSetUpListener(CHAR_X_UUID)
  \/ \E value \in FreshValues : WebNotify(CHAR_X_UUID, value)
  \/ WebIsConnectedCall
  \/ \E d \in WebDevices : WebLinkDrop(d)
  \/ WebReturn

SpecFresh == InitEvents /\ [][NextFresh]_vars

(* a transfer with the peripheral notifying while it runs *)
InitFlashSensor == Init /\ PlatformVersion = FastModeVersion

\* a notification that arrives while flashFirmware is suspended
NotifyInFlight(d, characteristic, value) ==
  /\ FlashInFlight
  /\ Notify(d, characteristic, value)

NextFlashSensor ==
  \/ \E d \in FlashDevices : ConnectCall(d)
  \/ ConnectLink
  \/ ConnectServices
  \/ ConnectSubXY
  \/ ConnectSubZ
  \/ \E d \in FlashDevices, value \in SensorValues : NotifyInFlight(d, CHAR_X_UUID, value)
  \/ \E d \in FlashDevices : LinkDrop(d)
  \/ \E fw \in FirmwareImages : FlashCall(fw)
  \/ FlashEntry
  \/ FlashMtu
  \/ FlashHeader
  \/ FlashHeaderSettled
  \/ FlashWait1
  \/ FlashStart
  \/ FlashStartSettled
  \/ FlashWait2
  \/ FlashRead
  \/ FlashReadSettled
  \/ FlashChunk
  \/ FlashChunkSettled
  \/ FlashDone
  \/ FlashDoneSettled
  \/ FlashReboot
  \/ FlashVerify
  \/ FlashReconnect
  \/ Return

SpecFlashSensor == InitFlashSensor /\ [][NextFlashSensor]_vars

(* two flashFirmware() runs and a getter on one facade: the application makes its second
   call while the first is suspended at an await; the build is the iOS one, whose runs
   request no MTU *)
\* the most times the run that takes the steps changes
MaxSwitches == 3

\* the run whose steps are being taken, as one value
Running ==
  [fpc |-> fpc, fstatus |-> fstatus, ferr |-> ferr, firmware |-> firmware,
   mtuSize |-> mtuSize, packetSize |-> packetSize, chunks |-> chunks, ci |-> ci,
   progress |-> progress, ota |-> ota]

\* the writes to OTA data a run has handed to the transport
DataWrites(log) == Len(SelectSeq(log, LAMBDA c : c.op = "write" /\ c.ch = OTA_DATA_UUID))

\* a facade that turns a call away while a run is in progress
FlashCallBusy(fw) ==
  /\ FlashInFlight /\ parked = NoSession
  /\ parked' = Running /\ session' = 2
  /\ wire' = Append(wire, [session |-> session, writes |-> DataWrites(ota)])
  /\ firmware' = fw /\ mtuSize' = DEFAULT_MTU_SIZE /\ packetSize' = 0
  /\ chunks' = <<>> /\ ci' = 0 /\ progress' = <<>>
  /\ fstatus' = "rejected" /\ ferr' = "busy" /\ ota' = <<>> /\ fpc' = "guard"
  /\ UNCHANGED <<envVars, facade2, busVars, webVars, subVars, sensorVars, infoVars, linkUp, callbacks,
                 device, connVars, discVars>>

\* flashFirmware(fw, onProgress) invoked while a run is suspended, lines 460-467: the
\* method tests this.device and nothing else, and its locals are its own
FlashCallSecond(fw) ==
  /\ FlashInFlight /\ parked = NoSession
  /\ parked' = Running /\ session' = 2
  /\ wire' = Append(wire, [session |-> session, writes |-> DataWrites(ota)])
  /\ firmware' = fw /\ mtuSize' = DEFAULT_MTU_SIZE /\ packetSize' = 0
  /\ chunks' = <<>> /\ ci' = 0 /\ progress' = <<>>
  /\ IF device = NoDevice
       THEN /\ fstatus' = "rejected" /\ ferr' = deviceNotInitMsg
            /\ ota' = <<>> /\ fpc' = "guard"
       ELSE /\ fstatus' = "running" /\ ferr' = "none"
            /\ ota' = <<Query(device)>> /\ fpc' = "guard"
  /\ UNCHANGED <<envVars, facade2, busVars, webVars, subVars, sensorVars, infoVars, linkUp, callbacks,
                 device, connVars, discVars>>

\* what the other run awaits settles first: the steps that follow are that run's
FlashSwitch ==
  /\ parked.fstatus = "running"
  /\ Len(wire) < MaxSwitches
  /\ parked' = Running /\ session' = 3 - session
  /\ wire' = Append(wire, [session |-> session, writes |-> DataWrites(ota)])
  /\ fpc' = parked.fpc /\ fstatus' = parked.fstatus /\ ferr' = parked.ferr
  /\ firmware' = parked.firmware /\ mtuSize' = parked.mtuSize
  /\ packetSize' = parked.packetSize /\ chunks' = parked.chunks /\ ci' = parked.ci
  /\ progress' = parked.progress /\ ota' = parked.ota
  /\ UNCHANGED <<envVars, facade2, busVars, webVars, subVars, sensorVars, infoVars, linkUp, callbacks,
                 device, connVars, discVars>>

\* a getter invoked while a run is suspended: readChar up to the guard's await, lines
\* 256-258
InfoCallInFlight(name) ==
  /\ FlashInFlight
  /\ gpc = "idle" /\ gres = "none"
  /\ gname' = name
  /\ gres' = "pending" /\ gval' = ""
  /\ gio' = <<Query(device)>> /\ gpc' = "chk"
  /\ UNCHANGED <<envVars, sessVars, facade2, busVars, webVars, subVars, sensorVars, linkUp, callbacks,
                 device, connVars, discVars, flashVars>>

\* the application goes on to its next call once no second run was started
ReturnAlone == parked = NoSession /\ Return

NextOverlap ==
  \/ \E d \in FlashDevices : ConnectCall(d)
  \/ ConnectLink
  \/ ConnectServices
  \/ ConnectSubXY
  \/ ConnectSubZ
  \/ \E d \in FlashDevices : LinkDrop(d)
  \/ FlashCall(Image(1))
  \/ FlashCallSecond(Image(2))
  \/ FlashSwitch
  \/ InfoCallInFlight("getBattery")
  \/ InfoChecked
  \/ InfoSettled
  \/ FlashEntry
  \/ FlashHeader
  \/ FlashHeaderSettled
  \/ FlashWait1
  \/ FlashStart
  \/ FlashStartSettled
  \/ FlashWait2
  \/ FlashRead
  \/ FlashReadSettled
  \/ FlashChunk
  \/ FlashChunkSettled
  \/ FlashDone
  \/ FlashDoneSettled
  \/ FlashReboot
  \/ FlashVerify
  \/ FlashReconnect
  \/ ReturnAlone

SpecOverlap == InitEvents /\ [][NextOverlap]_vars

(* the bus on its own: the application subscribes, unsubscribes and emits *)
BusPercents == {20}

NextBus ==
  \/ \E d \in Devices, l \in Listeners : SensorSubscribe(d, l)
  \/ \E d \in Devices, l \in Listeners : SensorUnsubscribe(d, l)
  \/ \E d \in Devices \cup {NoDevice}, percent \in BusPercents : SensorEmitCall(d, percent)

SpecBus == InitEvents /\ [][NextBus]_vars

(* ===================== claims on flashFirmware (Spec) ================== *)
IsPrefix(a, b) == Len(a) <= Len(b) /\ \A k \in 1..Len(a) : a[k] = b[k]
OtaChannels == {OTA_DATA_UUID, OTA_CONTROL_UUID}
WriteOps == {"write", "writeWithoutResponse"}
\* the reads and writes of a log that address an OTA characteristic
IsOtaIo(c) == c.op \in WriteOps \cup {"read"} /\ c.ch \in OtaChannels
OtaIo(log) == SelectSeq(log, IsOtaIo)
\* everything asked of the transport except connectivity queries
IsTransportIo(c) == c.op # "isPeripheralConnected"
\* what a call asked for, whatever peripheral it addressed and however it ended
Shape(c) == <<c.op, c.ch, c.data>>
Shapes(log) == [k \in 1..Len(log) |-> Shape(log[k])]
\* the first query of the run is the entry guard's; without a device none was issued
EntryGuardFailed == ota = <<>> \/ ota[1].st = "false"

\* C1: flashFirmware invoked without a device, or with the connectivity query answering
\* false, rejects with the not-connected message and asks the transport for nothing
\* else: no MTU request, no write, no read.
C1_NotConnectedRejects ==
  (fstatus # "idle" /\ EntryGuardFailed) =>
    /\ fstatus = "rejected"
    /\ ferr = deviceNotInitMsg
    /\ \A k \in 1..Len(ota) : ~IsTransportIo(ota[k])
    /\ progress = <<>>

C1_Witness ==
  /\ fstatus = "rejected" /\ Len(ota) = 1 /\ ota[1].st = "false"
  /\ device # NoDevice

\* the OTA reads and writes of a complete run, in order
ExpectedOta ==
  <<  <<"write", OTA_DATA_UUID, <<packetSize, TransferModeFlag(PlatformVersion)>> >>,
      <<"write", OTA_CONTROL_UUID, <<OtaStart>> >>,
      <<"read", OTA_CONTROL_UUID, <<>> >>  >>
  \o [k \in 1..Len(chunks) |-> <<"write", OTA_DATA_UUID, chunks[k]>>]
  \o << <<IF PlatformOS = "ios" THEN "write" ELSE "writeWithoutResponse",
          OTA_CONTROL_UUID, <<OtaDone>> >> >>

\* C3: the OTA reads and writes of a run are, at every moment, an initial part of
\* header, start, control read, chunk 0 .. chunk n-1, completion; each is issued only
\* after the one before it has succeeded; a run that resolves has issued all of them.
C3_OtaOrder ==
  fstatus # "idle" =>
    LET io == OtaIo(ota) IN
      /\ IsPrefix(Shapes(io), ExpectedOta)
      /\ \A k \in 1..(Len(io) - 1) : io[k].st = "ok"
      /\ fstatus = "resolved" =>
           /\ Shapes(io) = ExpectedOta
           /\ \A k \in 1..Len(io) : io[k].st = "ok"

C3_Witness == fstatus = "resolved" /\ Len(chunks) >= 2

\* C5: a transport call of the run that fails (MTU request, header, start, control
\* read, chunk, completion) is the last thing the run asks of the transport, and the
\* run rejects with the error it failed with.
C5_FailFast ==
  \A k \in 1..Len(ota) :
    (ota[k].op \in WriteOps \cup {"read", "requestMTU"} /\ ota[k].st \in TransportErrors) =>
      /\ k = Len(ota)
      /\ fstatus = "rejected"
      /\ ferr = ota[k].st

C5_Witness ==
  /\ fstatus = "rejected" /\ fpc = "chunk_io" /\ ci >= 1
  /\ Last(ota).st \in TransportErrors

\* v is a / b rounded to the nearest integer, halves up
IsRounded(v, a, b) == 2 * b * v <= 2 * a + b /\ 2 * a + b < 2 * b * (v + 1)
\* the chunk writes of a log: the writes to OTA data after the header
ChunkWrites(log) ==
  LET w == SelectSeq(log, LAMBDA c : c.op = "write" /\ c.ch = OTA_DATA_UUID)
  IN  IF w = <<>> THEN <<>> ELSE Tail(w)
IsOk(c) == c.st = "ok"

C8_EmptyImageFails ==
  (fstatus # "idle" /\ firmware = <<>>) =>
    /\ \A k \in 1..Len(ota) : ota[k].op \notin WriteOps
    /\ fstatus # "resolved"

\* C9 as claimed: once the transport has answered with an MTU of 3 or less the run
\* is rejected and has written nothing to the OTA characteristics
C9_SmallMtuFails ==
  (fstatus # "idle" /\ fpc \notin {"guard", "mtu"} /\ mtuSize <= MtuOverhead) =>
    /\ fstatus = "rejected"
    /\ OtaIo(ota) = <<>>

\* C24: every read or write of a run on an OTA characteristic (header, start command,
\* control read, chunks, completion command) comes right after a connectivity query of
\* the run that was answered true
C24_EveryOtaIoGuarded ==
  \A k \in 1..Len(ota) :
    IsOtaIo(ota[k]) =>
      /\ k > 1
      /\ ota[k - 1].op = "isPeripheralConnected"
      /\ ota[k - 1].st = "true"

(* ==================== claims on the end of a run (Spec) ================ *)
IsCompletion(c) == c.op \in WriteOps /\ c.ch = OTA_CONTROL_UUID /\ c.data = <<OtaDone>>
\* what the run asked of the transport after its completion command, if it sent one
AfterCompletion(log) ==
  LET hits == {k \in 1..Len(log) : IsCompletion(log[k])}
  IN  IF hits = {} THEN <<>>
      ELSE SubSeq(log, (CHOOSE k \in hits : \A j \in hits : k <= j) + 1, Len(log))

\* C25: after the completion command a run asks the transport for one connectivity
\* query and, only when that is answered false, for one connect of the peripheral its
\* entry guard queried; it resolves when the query is answered true or the connect
\* succeeds and rejects with the connect's error otherwise; its OTA reads and writes stay
\* an initial part of the one sequence header, start, read, chunks, completion
C25_VerifyOnce ==
  fstatus # "idle" =>
    LET tail == AfterCompletion(ota) IN
      /\ IsPrefix(Shapes(OtaIo(ota)), ExpectedOta)
      /\ Len(tail) <= 2
      /\ Len(tail) >= 1 =>
           /\ tail[1].op = "isPeripheralConnected" /\ tail[1].dev = ota[1].dev
           /\ tail[1].st = "true" => (fstatus = "resolved" /\ Len(tail) = 1)
           /\ tail[1].st = "false" => Len(tail) = 2
      /\ Len(tail) = 2 =>
           /\ tail[1].st = "false"
           /\ tail[2].op = "connect" /\ tail[2].dev = ota[1].dev
           /\ tail[2].st = "ok" => fstatus = "resolved"
           /\ tail[2].st \notin {"pending", "ok"} =>
                (fstatus = "rejected" /\ ferr = tail[2].st)
           /\ tail[2].st = "pending" => fstatus = "running"
      /\ fstatus = "resolved" =>
           /\ Len(tail) >= 1
           /\ Last(tail).st \in {"true", "ok"}

C25_Witness ==
  /\ fstatus = "resolved"
  /\ Last(ota).op = "connect" /\ Last(ota).st = "ok"
  /\ Len(chunks) = 2

IsOtaWrite(c) == c.op \in WriteOps /\ c.ch \in OtaChannels
IsConnect(c) == c.op = "connect"

\* C26 as claimed: while a run is in flight and the link to its peripheral is gone, no
\* step adds a write on an OTA characteristic to what the run has issued, none makes the
\* run call connect, and none resolves the run
C26_TeardownAborts ==
  [][(FlashInFlight /\ ~linkUp[device]) =>
       /\ Len(SelectSeq(ota', IsOtaWrite)) = Len(SelectSeq(ota, IsOtaWrite))
       /\ SelectSeq(ota', IsConnect) = <<>>
       /\ fstatus' # "resolved"]_vars

IsCompleted(c) == IsCompletion(c) /\ c.st = "ok"

\* C26 amended: while a run is in flight, the link to its peripheral is gone and its
\* completion command has not succeeded, no step adds a write on an OTA characteristic,
\* none makes the run call connect, none brings the link back and none resolves the run
C26_TeardownBeforeCompletion ==
  [][(FlashInFlight /\ ~linkUp[device] /\ SelectSeq(ota, IsCompleted) = <<>>) =>
       /\ Len(SelectSeq(ota', IsOtaWrite)) = Len(SelectSeq(ota, IsOtaWrite))
       /\ SelectSeq(ota', IsConnect) = <<>>
       /\ ~linkUp'[device]
       /\ fstatus' # "resolved"]_vars

C26_Witness ==
  /\ fstatus = "rejected" /\ ferr = deviceNotInitMsg
  /\ fpc = "chunk_chk" /\ ci = 1 /\ Len(chunks) = 2
  /\ Last(ota).st = "false"
  /\ ~linkUp[device]

(* ================= claims on the transfer unit (Spec) ================== *)
IsMtuRequest(c) == c.op = "requestMTU"
\* the positions of a log that hold a call satisfying Test
Positions(log, Test(_)) == {k \in 1..Len(log) : Test(log[k])}
\* the run got past its entry guard
PastEntryGuard == ota # <<>> /\ ota[1].st = "true"
\* line 482 has been executed
PacketSizeSet == fstatus # "idle" /\ fpc \notin {"idle", "guard", "mtu"}

\* C29: a run asks the transport for the MTU at most once: never on iOS, and on Android
\* once, right after its entry guard passed, for the size the OS version selects; every
\* read or write on an OTA characteristic comes after that request succeeded (on iOS,
\* after the entry guard). From line 482 on the packet size is the MTU less 3 (185 - 3
\* on iOS), the header carries it, the k-th chunk write carries bytes (k-1)*packetSize
\* up to k*packetSize of the image, and no step of the run in flight changes the MTU,
\* the packet size or the chunk list.
C29_TransferUnitFixed ==
  /\ [](LET req == Positions(ota, IsMtuRequest)
            io == Positions(ota, IsOtaIo)
            w == SelectSeq(ota, LAMBDA c : c.op = "write" /\ c.ch = OTA_DATA_UUID)
        IN  /\ Cardinality(req) <= 1
            /\ PlatformOS = "ios" => req = {}
            /\ (PlatformOS = "android" /\ PastEntryGuard /\ fstatus # "idle") =>
                 /\ req = {2}
                 /\ ota[2].data = <<DesiredMtu(PlatformVersion)>>
                 /\ \A k \in io : ota[2].st = "ok"
            /\ \A k \in io : PastEntryGuard /\ \A r \in req : r < k
            /\ io # {} => PacketSizeSet
            /\ PacketSizeSet =>
                 /\ packetSize = mtuSize - MtuOverhead
                 /\ PlatformOS = "ios" => mtuSize = IOS_MTU_SIZE
                 /\ \A k \in 1..Len(w) :
                      IF k = 1
                        THEN w[k].data[1] = packetSize
                        ELSE /\ w[k].data = Slice(firmware, (k - 2) * packetSize,
                                                  (k - 1) * packetSize)
                             /\ Len(w[k].data) <= packetSize
                             /\ w[k].max = Len(w[k].data))
  /\ [][(FlashInFlight /\ PacketSizeSet) =>
          /\ mtuSize' = mtuSize /\ packetSize' = packetSize /\ chunks' = chunks
          /\ firmware' = firmware]_vars

\* an Android run that was given a small MTU has written two chunks of that size less 3
C29_Witness ==
  /\ PlatformOS = "android"
  /\ fstatus = "resolved"
  /\ Cardinality(Positions(ota, IsMtuRequest)) = 1
  /\ mtuSize = MtuOverhead + 1 /\ packetSize = 1
  /\ Len(ChunkWrites(ota)) = 2 /\ \A k \in 1..2 : Len(ChunkWrites(ota)[k].data) = 1

\* C36 as claimed: whatever MTU the transport answered with, the loop of lines 485-487
\* comes to an end: its index moves towards the length of the image in every round
\* (or there is no round to make), and the run goes on to the header write
C36_ChunkingTerminates ==
  PacketSizeSet =>
    /\ firmware = <<>> \/ packetSize >= 1
    /\ ~ChunkLoopDiverges(firmware, mtuSize - MtuOverhead)
    /\ fstatus # "diverged"

\* the header of a run: its first write to OTA data, if it has made one
HeaderWrites(log) ==
  LET w == SelectSeq(log, LAMBDA c : c.op = "write" /\ c.ch = OTA_DATA_UUID)
  IN  IF w = <<>> THEN {} ELSE {w[1]}

\* C30 as claimed: the second byte of the header a run writes is 1 when the platform is
\* Android at version 34 or later, which is when the run asked for an MTU of 512, and 0
\* on every other platform and version.
C30_FastModeFlag ==
  \A h \in HeaderWrites(ota) :
    /\ h.data[2] \in {0, 1}
    /\ h.data[2] = 1 <=> (PlatformOS = "android" /\ PlatformVersion >= FastModeVersion)
    /\ h.data[2] = 1 <=>
         \E k \in Positions(ota, IsMtuRequest) : ota[k].data = <<DESIRED_MTU_SIZE_V_14>>

\* C37 as claimed: the first element of the header a run hands to the transport is a
\* byte value, and every chunk written before the last one of the run's chunk list has
\* that length
C37_PacketSizeIsByte ==
  \A h \in HeaderWrites(ota) :
    /\ h.data[1] \in 0..255
    /\ \A k \in 1..Len(ChunkWrites(ota)) :
         k < Len(chunks) => Len(ChunkWrites(ota)[k].data) = h.data[1]

(* ============== the chunking loop on its own (SpecChunk) =============== *)
ChunkBytes == {0, 255}
ChunkImages == UNION {[1..len -> ChunkBytes] : len \in 0..MaxImage}

\* flashFirmware stands before its chunking loop, line 484, with any image and any
\* positive packet size
InitChunk ==
  /\ InitFacade
  /\ fpc = "chunking" /\ fstatus = "running" /\ ferr = "none"
  /\ firmware \in ChunkImages
  /\ packetSize \in 1..(MaxImage + 1)
  /\ mtuSize = packetSize + MtuOverhead
  /\ chunks = <<>> /\ ci = 0 /\ progress = <<>> /\ ota = <<>>

\* lines 484-487
Chunking ==
  /\ fpc = "chunking"
  /\ ~ChunkLoopDiverges(firmware, packetSize)
  /\ chunks' = ChunkLoop(firmware, packetSize, 0, <<>>)
  /\ fpc' = "chunked"
  /\ UNCHANGED <<fstatus, ferr, firmware, mtuSize, packetSize, ci, progress, ota, flashFrame>>

NextChunk == Chunking

SpecChunk == InitChunk /\ [][NextChunk]_vars

RECURSIVE Concat(_)
Concat(ss) == IF ss = <<>> THEN <<>> ELSE Head(ss) \o Concat(Tail(ss))
CeilDiv(a, b) == (a + b - 1) \div b

InitProgress ==
  /\ InitFacade
  /\ fpc = "streaming" /\ fstatus = "running" /\ ferr = "none"
  /\ \E n \in 1..MaxChunks : firmware = [k \in 1..n |-> 0]
  /\ packetSize = 1
  /\ mtuSize = packetSize + MtuOverhead
  /\ chunks = [k \in 1..Len(firmware) |-> <<firmware[k]>>]
  /\ ci = 0 /\ progress = <<>> /\ ota = <<>>

\* one turn of the loop whose write succeeds, lines 504-509
Streaming ==
  /\ fpc = "streaming"
  /\ ci < Len(chunks)
  /\ ReportProgress
  /\ UNCHANGED <<fpc, fstatus, ferr, firmware, mtuSize, packetSize, chunks, ota, flashFrame>>

NextProgress == Streaming

SpecProgress == InitProgress /\ [][NextProgress]_vars

\* C7 as claimed: no call of onProgress carries 100
C7_NeverHundred == \A k \in 1..Len(progress) : progress[k] # 100

\* C7 amended: no call of onProgress carries more than 100; a run of fewer than 200
\* chunks never reports 100; the last value of a run of n chunks is
\* round((n-1)/n*100), which is 100 from 200 chunks on.
C7_HundredFrom200Chunks ==
  LET n == Len(chunks) IN
    /\ \A k \in 1..Len(progress) : progress[k] <= 100
    /\ n < 200 => \A k \in 1..Len(progress) : progress[k] < 100
    /\ (ci = n /\ n > 0) =>
         /\ IsRounded(progress[n], 100 * (n - 1), n)
         /\ n >= 200 => progress[n] = 100

C7_Witness == Len(chunks) = 199 /\ ci = 199 /\ progress[199] = 99

(* ================== claims on the info methods (SpecInfo) ============== *)
\* C2: on a facade on which connect has never set a device, each of the seven info getters
\* and testDevice rejects with the not-connected message, the same one for all, and asks
\* nothing of the transport: no read, no write, not even a connectivity query.
C2_GettersRejectBeforeConnect ==
  (gname # "none" /\ device = NoDevice) =>
    /\ gres = "rejected"
    /\ gval = deviceNotInitMsg
    /\ gio = <<>>

C2_Witness ==
  /\ gname = "getBattery" /\ device = NoDevice /\ gres = "rejected"
  /\ cres = "none" /\ \A d \in Devices : ~linkUp[d]

\* C39 as claimed: when connect() has rejected with a transport failure, the disconnect()
\* its catch block started is no longer in progress, and none is in progress once a later
\* connect() has resolved, so no step of it can close the link or remove the table
\* entry of the device the facade is then connected to
C39_CleanupDoneAtRejection ==
  /\ (cpc = "idle" /\ cres \notin {"none", "pending", "resolved", deviceNotFound}) =>
       ~DisconnectInFlight("cleanup")
  /\ cres = "resolved" =>
       /\ ~DisconnectInFlight("cleanup")
       /\ ~ENABLED (DisconnectClosed("cleanup") /\ ~linkUp'[device])
       /\ ~ENABLED (DisconnectUnsubscribed("cleanup") /\ callbacks'[device] = NoEntry)

(* ================ claims on the sensor path (SpecSensor) =============== *)
Field(data, tag) ==
  CASE tag = CHAR_X_UUID -> data.axisX
    [] tag = CHAR_Y_UUID -> data.axisY
    [] tag = CHAR_Z_UUID -> data.axisZ

\* C10: whatever notifications the handler has processed and in whatever order across
\* the axes, each field of the sample holds the value of the last notification of its own
\* axis since connect was last entered, and 0 when there was none; so a notification of
\* one axis leaves the fields of the other two as they were.
C10_SampleIsLastPerAxis ==
  \A tag \in AxisTags :
    Field(notificationData, tag) =
      IF lastNotified[tag] = <<>> THEN 0 ELSE lastNotified[tag][1]

C10_Witness ==
  /\ lastNotified[CHAR_X_UUID] = <<1>>
  /\ lastNotified[CHAR_Y_UUID] = <<2>>
  /\ lastNotified[CHAR_Z_UUID] = <<>>
  /\ notificationData = DeviceData(1, 2, 0)
  /\ emitted.percent = 40

\* connect() has resolved and what it set up is in place: the link is up, notifications
\* are started on the three axis characteristics and the device has its table entry
Subscribed ==
  /\ cres = "resolved" /\ linkUp[cdev]
  /\ notifying[cdev] = AxisTags /\ callbacks[cdev] # NoEntry

\* C19: once connect() has resolved, the one table entry of the device is that of the
\* third subscription and carries the handler, and a notification on any of the three
\* axis characteristics, with any value, is handed to the handler and stored in the
\* field of its axis
C19_AnyAxisReachesHandler ==
  Subscribed =>
    /\ callbacks[cdev].callback
    /\ callbacks[cdev].characteristic = CHAR_Z_UUID
    /\ \A char \in AxisTags, value \in SensorValues :
         ENABLED (/\ Notify(cdev, char, value)
                  /\ Field(notificationData', char) = value
                  /\ lastNotified'[char] = <<value>>)

C19_Witness ==
  /\ Subscribed
  /\ lastNotified[CHAR_X_UUID] = <<2>>
  /\ notificationData.axisX = 2
  /\ lastNotified[CHAR_Z_UUID] = <<>>

\* C20: once the application's disconnect() has resolved, it has asked the transport to
\* stop the notifications of each of the three axis characteristics, the callback table
\* has no entry for the device, and no notification from the device, on an axis
\* characteristic or not, changes the sample or the stored acceleration or emits an event
C20_DisconnectTearsDown ==
  dres = "resolved" =>
    /\ \A tag \in AxisTags :
         \E k \in 1..Len(dio) : dio[k] = StopNotification(device, tag)
    /\ callbacks[device] = NoEntry
    /\ \A char \in AxisTags, value \in SensorValues :
         ~ENABLED (Notify(device, char, value) /\ sensorVars' # sensorVars)
    /\ \A char \in StrayTags, value \in SensorValues :
         ~ENABLED (NotifyOther(device, char, value) /\ sensorVars' # sensorVars)

C20_Witness ==
  /\ dres = "resolved"
  /\ PlatformOS = "android"
  /\ Len(dio) = 8
  /\ dio[5] = StopNotification(device, CHAR_Z_UUID)
  /\ Last(dio) = Close(device)
  /\ lastNotified[CHAR_Y_UUID] = <<1>>
  /\ acceleration = 1

\* C33: a notification of a peripheral whose table entry is missing or has no callback
\* is taken by the listener and changes nothing: not the table, not the sample or the
\* stored acceleration of any instance, not the last event or what the listeners
\* received, and no error is raised
C33_UnroutedNotificationDropped ==
  \A d \in Devices :
    (callbacks[d] = NoEntry \/ ~callbacks[d].callback) =>
      /\ \A char \in notifying[d] \cap AxisTags, value \in SensorValues :
           (linkUp[d] /\ InboxRoom(d)) =>
             /\ ENABLED Notify(d, char, value)
             /\ ~ENABLED (/\ Notify(d, char, value)
                          /\ <<callbacks, sensorVars, facade2, listeners>>' #
                               <<callbacks, sensorVars, facade2, listeners>>)
      /\ \A char \in StrayTags, value \in SensorValues :
           (linkUp[d] /\ InboxRoom(d)) =>
             ~ENABLED (/\ NotifyOther(d, char, value)
                       /\ <<callbacks, sensorVars, facade2, listeners>>' #
                            <<callbacks, sensorVars, facade2, listeners>>)

\* disconnect() has removed the entry of a peripheral that still notifies on two axes,
\* after the handler had stored a sample
C33_Witness ==
  /\ device = "A" /\ DisconnectInFlight("user")
  /\ callbacks["A"] = NoEntry
  /\ linkUp["A"] /\ {CHAR_X_UUID, CHAR_Y_UUID} \subseteq notifying["A"]
  /\ notificationData = DeviceData(MaxAxis, 0, 0) /\ acceleration = MaxAxis

IsClose(c) == c.op = "disconnect"
IsWrite(c) == c.op = "write"
DisconnectIntentWrite == Write(device, DISCONNECT_DEVICE_UUID, <<0>>, NoMax)

\* C35: of the transport calls of the application's disconnect(), BleManager.disconnect
\* is the last, and a disconnect() that resolved has issued it and the link is closed.
\* On Android it is issued right after the write of [0] to 1501, which went through the
\* guard of writeChar and was issued when the table entry of the device was gone; when
\* that write fails the call rejects with the failure, issues nothing more and leaves
\* the link as it is. On iOS disconnect() writes nothing.
C35_DisconnectOrder ==
  /\ Positions(dio, IsClose) \subseteq {Len(dio)}
  /\ dres = "resolved" => (dio # <<>> /\ Last(dio) = Close(device) /\ ~linkUp[device])
  /\ PlatformOS = "ios" => Positions(dio, IsWrite) = {}
  /\ \A k \in Positions(dio, IsWrite) : dio[k] = DisconnectIntentWrite
  /\ PlatformOS = "android" =>
       \A k \in Positions(dio, IsClose) :
         k >= 3 /\ dio[k - 1] = DisconnectIntentWrite /\ dio[k - 2] = Query(device)
  /\ dpc["user"] = "intent_io" =>
       /\ callbacks[ddev["user"]] = NoEntry
       /\ Last(dio) = DisconnectIntentWrite
       /\ ~ENABLED (/\ DisconnectIntentSettled("user")
                    /\ ~ \/ dres' = "pending" /\ dio' = Append(dio, Close(device))
                         \/ /\ dres' \in TransportErrors /\ dio' = dio
                            /\ linkUp' = linkUp)
  /\ (dpc["user"] = "idle" /\ dio # <<>> /\ IsWrite(Last(dio))) => dres \in TransportErrors

\* on Android the disconnect-intent write failed: disconnect() has rejected with the
\* failure, the table entry is gone and the link is still up
C35_Witness ==
  /\ PlatformOS = "android"
  /\ dres = "timeout" /\ Len(dio) = 7 /\ Last(dio) = DisconnectIntentWrite
  /\ callbacks[device] = NoEntry /\ linkUp[device]

(* ======== claims on notifications during a run (SpecFlashSensor) ======= *)
\* the peripheral of the facade can notify and the facade's handler is installed
Notifiable ==
  /\ device # NoDevice /\ linkUp[device]
  /\ notifying[device] = AxisTags
  /\ callbacks[device] # NoEntry /\ callbacks[device].callback

\* C27: at every suspension point of a run in flight a notification on any axis, with
\* any value, is handed to the handler at once: the value is stored in the field of its
\* axis and an event with the new percent is emitted when the magnitude differs from
\* the stored one, while packet size, chunk list, chunk index, progress and the calls
\* the run has issued stay as they are; the run's OTA calls remain an initial part of
\* header, start, read, chunks, completion
C27_NotificationsDuringFlash ==
  FlashInFlight =>
    /\ IsPrefix(Shapes(OtaIo(ota)), ExpectedOta)
    /\ Notifiable =>
         \A char \in AxisTags, value \in SensorValues :
           ENABLED (/\ Notify(device, char, value)
                    /\ Field(notificationData', char) = value
                    /\ LET m == calculateTotalAcceleration(notificationData')
                       IN  /\ acceleration' = m
                           /\ m # acceleration => emitted' = SensorEvent(device, Scale(m))
                           /\ m = acceleration => emitted' = emitted
                    /\ UNCHANGED flashVars)

C27_Witness ==
  /\ FlashInFlight /\ fpc = "chunk_chk" /\ ci = 1 /\ Len(chunks) = 2
  /\ Notifiable
  /\ notificationData = DeviceData(MaxAxis, 0, 0)
  /\ emitted = SensorEvent(device, MaxAxis * 20)

(* ============ the magnitude of a sample on its own (SpecMagnitude) ====== *)
\* field values of the samples: the small ones, where the magnitude is below its cap,
\* and the largest byte
SampleBytes == (0..MaxSample) \cup {255}

\* a DeviceData built from any three bytes (constructor, lines 156-160) in a facade that
\* has not computed a magnitude yet
InitMagnitude ==
  /\ InitCalls
  /\ fpc = "idle" /\ fstatus = "idle" /\ ferr = "none"
  /\ firmware = <<>> /\ mtuSize = DEFAULT_MTU_SIZE /\ packetSize = 0
  /\ chunks = <<>> /\ ci = 0 /\ progress = <<>> /\ ota = <<>>
  /\ \E x, y, z \in SampleBytes : notificationData = DeviceData(x, y, z)
  /\ acceleration = 0

\* lines 351-357 of the handler on that sample: the run on a notification that names no
\* characteristic, which stores nothing before it calls calculateTotalAcceleration
Magnitude ==
  /\ emitted = NoEvent
  /\ Handler(CHOOSE d \in FlashDevices : TRUE, "", 0)
  /\ UNCHANGED <<envVars, sessVars, facade2, busVars, webVars, subVars, infoVars, linkUp, callbacks, device, connVars,
                 discVars, flashVars>>

NextMagnitude == Magnitude

SpecMagnitude == InitMagnitude /\ [][NextMagnitude]_vars

SumOfSquares(data) ==
  data.axisX * data.axisX + data.axisY * data.axisY + data.axisZ * data.axisZ
\* r is the integer nearest to sqrt(s), the upper one of two equally near
IsNearestToSqrt(r, s) ==
  /\ r > 0 => (2 * r - 1) * (2 * r - 1) <= 4 * s
  /\ 4 * s < (2 * r + 1) * (2 * r + 1)

\* C11: for a sample (x, y, z) of bytes calculateTotalAcceleration returns
\* min(round(sqrt(x^2 + y^2 + z^2)), 5) with halves rounded up: an integer in 0..5 that
\* is the nearest integer to the root when below 5, and 5 when the root is 4.5 or more.
C11_MagnitudeIsCappedNorm ==
  (emitted # NoEvent \/ notificationData = DeviceData(0, 0, 0)) =>
    LET s == SumOfSquares(notificationData)
        m == acceleration
    IN  /\ m \in 0..5
        /\ m < 5 => IsNearestToSqrt(m, s)
        /\ m = 5 => 81 <= 4 * s
        /\ m = calculateTotalAcceleration(notificationData)

C11_Witness ==
  /\ notificationData = DeviceData(3, 4, 0)
  /\ acceleration = 5
  /\ emitted.percent = 100

(* ================= claims on sensor events (SpecEvents) ================ *)
\* C12: every event a listener is invoked with by the facade carries the percent
\* min(20 * m, 100), m being the magnitude of the facade's sample at the moment of the
\* emission, so every delivered percent is one of 0, 20, 40, 60, 80, 100
C12_DeliveredPercent ==
  [][\A l \in Listeners :
       inbox'[l] # inbox[l] =>
         /\ Len(inbox'[l]) > Len(inbox[l])
         /\ \A k \in (Len(inbox[l]) + 1)..Len(inbox'[l]) :
              /\ inbox'[l][k].percent =
                   Min(20 * calculateTotalAcceleration(notificationData'), 100)
              /\ inbox'[l][k].percent \in {0, 20, 40, 60, 80, 100}]_vars

C12_Witness ==
  /\ inbox["l1"] # <<>>
  /\ Last(inbox["l1"]).percent = 60
  /\ emitted.percent = 60

\* C31 as claimed: whenever no connect() is in progress, the stored acceleration is the
\* magnitude of the sample the facade holds
C31_AccelerationFollowsSample ==
  ~ConnectInFlight => acceleration = calculateTotalAcceleration(notificationData)

\* C14: the first notification the handler processes after connect() was entered hands
\* an event to every listener registered for the device, whatever the magnitude is
C14_FirstNotificationEmits ==
  [][(lastNotified = NoSample /\ lastNotified' # NoSample) =>
       \A l \in Listeners :
         Count(l, listeners[device]) > 0 => Len(inbox'[l]) > Len(inbox[l])]_vars

(* ========== claims on the shared callback table (SpecFacades) ========= *)
SubscribePcs == {"subX", "subY", "subZ"}
\* the characteristic of the subscribe call a connect() at pc awaits
AxisOf(pc) ==
  CASE pc = "subX" -> CHAR_X_UUID [] pc = "subY" -> CHAR_Y_UUID [] pc = "subZ" -> CHAR_Z_UUID
\* the entry that call leaves in the table when made for facade owner
EntryOf(pc, owner) ==
  [callback |-> pc = "subZ", service |-> KIIROO_CONTROL_SERVICE_UUID,
   characteristic |-> AxisOf(pc), owner |-> owner]

\* C32: the table holds one entry per device; each subscribe call that succeeds, of
\* either instance, leaves its own entry as the entry of its device, whatever entry
\* there was, and the table changes in no other way; a notification changes the sample
\* of an instance only if the entry of the peripheral at that moment carries that
\* instance's handler, so only the instance that subscribed last is notified.
C32_LatestSubscribeWins ==
  [][/\ (cpc \in SubscribePcs /\ cpc' # cpc /\ cres' \in {"pending", "resolved"}) =>
          callbacks'[cdev] = EntryOf(cpc, 1)
     /\ (facade2.pc \in SubscribePcs /\ facade2'.pc # facade2.pc) =>
          callbacks'[facade2.device] = EntryOf(facade2.pc, 2)
     /\ \A d \in Devices :
          callbacks'[d] # callbacks[d] =>
            \/ cpc \in SubscribePcs /\ cpc' # cpc /\ cdev = d
            \/ facade2.pc \in SubscribePcs /\ facade2'.pc # facade2.pc /\ facade2.device = d
     /\ (lastNotified' # lastNotified /\ lastNotified' # NoSample) =>
          \E d \in Devices : callbacks[d].callback /\ callbacks[d].owner = 1
     /\ (facade2'.pc = facade2.pc /\ facade2' # facade2) =>
          /\ callbacks[facade2.device].callback
          /\ callbacks[facade2.device].owner = 2]_vars

\* the first instance was connected to the peripheral and notified; then the second
\* connected to the same peripheral, and the next notification went to it alone
C32_Witness ==
  /\ device = "A" /\ cres = "resolved"
  /\ lastNotified[CHAR_X_UUID] = <<1>> /\ notificationData.axisX = 1
  /\ facade2.device = "A" /\ facade2.pc = "idle"
  /\ callbacks["A"] = EntryOf("subZ", 2)
  /\ facade2.notificationData.axisX = 2 /\ facade2.acceleration = 2

(* ============ claims on stray notifications (SpecStray) =============== *)
\* C17: a notification that carries no axis tag and reaches the handler raises an error
\* and changes neither the sample nor the stored acceleration, and no event is emitted
C17_StrayRaises ==
  [][\A d \in Devices, char \in StrayTags, value \in SensorValues :
       (NotifyOther(d, char, value) /\ callbacks[d].callback) =>
         /\ raised' # ""
         /\ UNCHANGED <<notificationData, acceleration, emitted, inbox>>]_vars

(* ============== claims on two peripherals, one facade (SpecTwo) ======== *)
\* the events listener l was invoked with for device d, in order
EventsOf(l, d) == SelectSeq(inbox[l], LAMBDA e : e.device = d)
NoRepeat(events) ==
  \A k \in 1..(Len(events) - 1) : events[k].percent # events[k + 1].percent

\* C13: whatever the connects and notifications, a listener of one device is never
\* invoked with the same percent twice in a row for that device
C13_NoRepeatedPercent ==
  \A l \in Listeners, d \in Devices : NoRepeat(EventsOf(l, d))

\* C38 as claimed: once connect() has resolved, a notification from a peripheral other
\* than the one it was called with changes neither the sample nor the stored acceleration and hands
\* no event to the emitter
C38_OnlyCurrentDeviceNotifies ==
  \A d \in Devices \ {device}, value \in SensorValues :
    cres = "resolved" =>
    ~ENABLED (/\ Notify(d, CHAR_X_UUID, value)
              /\ <<notificationData, acceleration, emitted, inbox>>' #
                   <<notificationData, acceleration, emitted, inbox>>)

(* ===================== claims on the event bus (SpecBus) =============== *)
\* C15: once unsubscribe(deviceId, l) has returned, an emit for deviceId does not invoke
\* l, however often l had been subscribed before
C15_NoDeliveryAfterUnsubscribe ==
  [][(busOp.op = "unsubscribe" /\ busOp'.op = "emit" /\ busOp'.device = busOp.device) =>
       inbox'[busOp.listener] = inbox[busOp.listener]]_vars

\* C16: emit with no device invokes no listener, and unsubscribe of a listener that is
\* not registered for the device leaves the registrations of every device as they were
C16_NoOps ==
  [][/\ (busOp'.op = "emit" /\ busOp'.device = NoDevice) => inbox' = inbox
     /\ (busOp'.op = "unsubscribe" /\ ~busOp'.registered) => listeners' = listeners]_vars

C16_Witness ==
  /\ busOp.op = "unsubscribe" /\ ~busOp.registered
  /\ busOp.listener = "l2" /\ busOp.device = "A"
  /\ listeners["A"] = <<"l1">> /\ listeners["B"] = <<"l2">>

(* ===================== claims on the web facade (SpecWeb) ============== *)
IsValueIo(call) == call.op \in {"readValue", "writeValue"}

\* C18: a getter, testDevice or flashFirmware called on the web facade while the device is
\* not connected rejects with the not-connected message and issues no read or write of
\* a characteristic, and isDeviceInitialized then returns that message
C18_WebNotConnectedRejects ==
  (wname \in WebMethods \cup {"isDeviceInitialized"} /\ ~wconn) =>
    /\ \A k \in 1..Len(wio) : ~IsValueIo(wio[k])
    /\ (wpc = "idle" /\ wname \in WebMethods) =>
         (wres = "rejected" /\ wval = deviceNotInitMsg)
    /\ wname = "isDeviceInitialized" => wval = deviceNotInitMsg

\* C34 as claimed: a getter whose characteristic read the transport failed has rejected
\* with the transport's error, on the web facade and on the React Native one
C34_FailedReadRejects ==
  /\ (wpc = "idle" /\ wio # <<>> /\ Last(wio).op = "readValue"
        /\ Last(wio).st \in TransportErrors) =>
       (wres = "rejected" /\ wval = Last(wio).st)
  /\ (gpc = "idle" /\ gio # <<>> /\ Last(gio).op = "read"
        /\ Last(gio).st \in TransportErrors) =>
       (gres = "rejected" /\ gval = Last(gio).st)

(* ========== claims on a freshly constructed facade (SpecFresh) ========= *)
\* C23: as long as connect() has set no device, the sample of the facade is (0, 0, 0) and
\* isConnected() answers false without asking the transport anything; this holds for the
\* React Native facade and for the web facade
C23_FreshFacade ==
  /\ device = NoDevice =>
       /\ notificationData = DeviceData(0, 0, 0)
       /\ gname = "isConnected" =>
            (gpc = "idle" /\ gres = "resolved" /\ gval = Bool(FALSE) /\ gio = <<>>)
  /\ wdevice = NoDevice =>
       /\ waxis = DeviceData(0, 0, 0)
       /\ wname = "isConnected" =>
            (wres = "returned" /\ wval = Bool(FALSE) /\ wio = <<>>)

C23_Witness ==
  /\ device = NoDevice /\ gname = "isConnected" /\ gres = "resolved"
  /\ wdevice = NoDevice /\ wname = "isConnected" /\ wres = "returned"
  /\ \A d \in Devices : ~linkUp[d]

(* ===================== claims on the web facade (SpecWeb), continued === *)
\* C22: disconnect() called on a web facade on which connect() has never been called
\* resolves with undefined and calls nothing on the transport, gatt.disconnect() included
C22_DisconnectBeforeConnect ==
  (wname = "disconnect" /\ wdevice = NoDevice) =>
    /\ wpc = "idle" /\ wres = "resolved" /\ wval = ""
    /\ wio = <<>>
    /\ \A d \in Devices : ~linkUp[d]

C22_Witness ==
  /\ wname = "disconnect" /\ wres = "resolved"
  /\ wdevice = NoDevice /\ controlService = NoDevice

(* ============ claims on overlapping calls (SpecOverlap) ================= *)
\* no call of the log failed or was refused
AllWent(log) == \A k \in 1..Len(log) : log[k].st \in {"true", "ok", "pending"}

\* C28: while a flashFirmware run is suspended and no second one was started, a second
\* flashFirmware call is taken up at once, as it would be on an idle facade: the first
\* run stays suspended where it was, the second has its own locals and, with a device
\* set, is in flight with its entry guard's query issued (without one it rejects with
\* the not-connected message); and a getter called at that moment is pending on its own
\* guard's query. The runs then take their steps in any order.
C28_NoSerialization ==
  (FlashInFlight /\ parked = NoSession) =>
    /\ \A fw \in FirmwareImages :
         ENABLED (/\ FlashCallSecond(fw)
                  /\ parked' = Running
                  /\ firmware' = fw /\ progress' = <<>>
                  /\ IF device = NoDevice
                       THEN fstatus' = "rejected" /\ ferr' = deviceNotInitMsg
                       ELSE fstatus' = "running" /\ ota' = <<Query(device)>>)
    /\ (gpc = "idle" /\ gres = "none") =>
         ENABLED (/\ InfoCallInFlight("getBattery")
                  /\ gres' = "pending" /\ gio' = <<Query(device)>>
                  /\ UNCHANGED flashVars)

\* the first run wrote its header, then the second run its header, then the first run
\* its chunk, then the second run its chunk, all on OTA data of one peripheral
C28_Witness ==
  /\ wire = << [session |-> 1, writes |-> 1], [session |-> 2, writes |-> 1],
               [session |-> 1, writes |-> 2] >>
  /\ session = 2 /\ DataWrites(ota) = 2
  /\ FlashInFlight /\ parked.fstatus = "running"
  /\ AllWent(ota) /\ AllWent(parked.ota)
  /\ firmware = Image(2) /\ parked.firmware = Image(1)
  /\ Last(ota).dev = Last(parked.ota).dev

(* ============ claims on the web sensor path (SpecWebSensor) ============ *)
\* C21: over connect/disconnect cycles no axis characteristic carries more than one
\* listener of the facade, so a notification runs the axis handler and the callback at
\* most once; and once disconnect() has resolved the listeners connect() added are
\* removed and no notification reaches the facade
C21_DisconnectRemovesListeners ==
  /\ \A char \in AxisTags : wlisteners[char] <= 1
  /\ wnote.runs <= 1 /\ wnote.calls <= 1
  /\ (wname = "disconnect" /\ wres = "resolved") =>
       /\ \A char \in AxisTags : wlisteners[char] = 0
       /\ \A char \in AxisTags, value \in SensorValues : ~ENABLED WebNotify(char, value)

====
